---- MODULE Spec2Model ----
(***************************************************************************)
(* Verification model of the dataset-metadata normalisation core:          *)
(*   - MetadataFetcher.fetch and HTTPClient.download_file                   *)
(*     (infrastructure/etl/fetcher.py, infrastructure/external/            *)
(*     http_client.py), specification SpecFetch;                            *)
(*   - the distribution-URL heuristics of JSONExtractor and XMLExtractor    *)
(*     (_extract_distribution_info), specification SpecDist;                *)
(*   - the BoundingBox value object (domain/entities/metadata.py),          *)
(*     specification SpecBox;                                               *)
(*   - extract of the four extractors (JSON, ISO 19139 XML, JSON-LD,        *)
(*     RDF/Turtle) up to the validated Metadata entity, specification       *)
(*     SpecExtract;                                                         *)
(*   - ExtractorFactory (infrastructure/etl/factory/extractor_factory.py),  *)
(*     specification SpecFactory;                                           *)
(*   - JSONExtractor.extract_resources and the Resource classes             *)
(*     (domain/entities/resource.py), specification SpecResources;          *)
(*   - extract called twice on one unchanged file, specification            *)
(*     SpecRepeat;                                                          *)
(*   - one dataset extracted from its JSON and from its XML                 *)
(*     representation, specification SpecPair;                              *)
(*   - Metadata.add_keywords, specification SpecKeywords;                   *)
(*   - BatchETLRunner.run with its worker threads and checkpoint file       *)
(*     (scripts/batch_etl_runner.py), specifications SpecBatch and          *)
(*     SpecBatchFair (SpecBatch with weak fairness of the threads).         *)
(***************************************************************************)
EXTENDS Integers, Sequences, FiniteSets, TLC

VARIABLES
    \* ---- MetadataFetcher / HTTPClient ----
    catalogue,          \* self.catalogue
    preferred_format,   \* fetch(preferred_format=...), "none" for None
    uuid,               \* fetch(uuid=...)
    temp_dir_ok,        \* whether self.temp_dir can be created / written
    urls_to_try,        \* the candidate list built by _build_url_list
    idx,                \* position of the for-loop of fetch (1-based)
    pc,                 \* "idle", "loop", "download", "done"
    attempt_number,     \* tenacity's attempt number inside download_file
    last_error,         \* fetch's local last_error
    files,              \* content of the temp files, by extension
    wire,               \* history: the session.get calls issued, in order
    tried,              \* history: how each candidate ended
    outcome,            \* what fetch gave its caller
    \* ---- _extract_distribution_info (JSON and XML) ----
    doc,                \* the document handed to the extractor
    dist,               \* the (download_url, landing_page_url, access_type) computed
    \* ---- BoundingBox(...) ----
    coords,             \* the four keyword arguments of the constructor call
    box,                \* what the constructor call gave its caller
    \* ---- IMetadataExtractor.extract ----
    extractor,          \* the extractor instance: its class and self.strict_mode
    source,             \* the parsed content of the file at source_path
    source_file,        \* the file at source_path: present, accepted, readable
    result,             \* what extract gave its caller
    \* ---- ExtractorFactory ----
    factory_strict_mode, \* self.strict_mode
    extractors,         \* self._extractors, a dict in insertion order
    extension_map,      \* self._extension_map, a dict in insertion order
    registered,         \* history: the format tokens in order of first registration
    last_call,          \* history: the last call, the dicts before it, its result
    \* ---- JSONExtractor.extract_resources ----
    resource_file,      \* the file at source_path given to extract_resources
    returned_resources,  \* what extract_resources gave its caller
    \* ---- extract called twice on one file ----
    dated_extractor,    \* the extractor instance of the repeated calls
    dated_file,         \* the unchanged file: its date stamp
    utcnow,             \* datetime.utcnow()
    extracted,           \* history: the Metadata of the extract calls so far
    \* ---- one dataset, two formats ----
    dataset,            \* the dataset written to a JSON and to an XML file
    pair_strict_mode,   \* strict_mode of the two extractors
    json_metadata,      \* what JSONExtractor.extract gave for the JSON file
    xml_metadata,        \* what XMLExtractor.extract gave for the XML file
    \* ---- Metadata.add_keywords ----
    metadata_keywords,  \* self.keywords of one Metadata
    keywords_before,     \* history: self.keywords before the last add_keywords call
    \* ---- BatchETLRunner.run ----
    all_uuids,          \* load_uuids(input_file): the identifiers, in file order
    resume,             \* self.resume
    progress,           \* the BatchProgress of the current run
    progress_file,      \* the checkpoint file: absent, or the progress last saved
    futures,            \* future_to_uuid, in submission order
    run_pc,             \* "idle" between runs, "running" inside run
    runs                \* history: the number of runs that returned

fetchVars == <<catalogue, preferred_format, uuid, temp_dir_ok, urls_to_try, idx,
               pc, attempt_number, last_error, files, wire, tried, outcome>>
distVars  == <<doc, dist>>
boxVars   == <<coords, box>>
extractVars == <<extractor, source, source_file, result>>
factoryVars == <<factory_strict_mode, extractors, extension_map, registered,
                 last_call>>
resourceVars == <<resource_file, returned_resources>>
repeatVars == <<dated_extractor, dated_file, utcnow, extracted>>
pairVars == <<dataset, pair_strict_mode, json_metadata, xml_metadata>>
keywordVars == <<metadata_keywords, keywords_before>>
batchVars == <<all_uuids, resume, progress, progress_file, futures, run_pc, runs>>
vars == <<fetchVars, distVars, boxVars, extractVars, factoryVars,
          resourceVars, repeatVars, pairVars, keywordVars, batchVars>>

\* what an action of one component leaves alone
notFetchVars == <<distVars, boxVars, extractVars, factoryVars,
                  resourceVars, repeatVars, pairVars, keywordVars,
                  batchVars>>
notDistVars == <<fetchVars, boxVars, extractVars, factoryVars,
                 resourceVars, repeatVars, pairVars, keywordVars,
                 batchVars>>
notBoxVars == <<fetchVars, distVars, extractVars, factoryVars,
                resourceVars, repeatVars, pairVars, keywordVars,
                batchVars>>
notExtractVars == <<fetchVars, distVars, boxVars, factoryVars,
                    resourceVars, repeatVars, pairVars, keywordVars,
                    batchVars>>
notFactoryVars == <<fetchVars, distVars, boxVars, extractVars,
                    resourceVars, repeatVars, pairVars, keywordVars,
                    batchVars>>
notResourceVars == <<fetchVars, distVars, boxVars, extractVars,
                     factoryVars, repeatVars, pairVars, keywordVars,
                     batchVars>>
notRepeatVars == <<fetchVars, distVars, boxVars, extractVars, factoryVars,
                   resourceVars, pairVars, keywordVars, batchVars>>
notPairVars == <<fetchVars, distVars, boxVars, extractVars, factoryVars,
                 resourceVars, repeatVars, keywordVars, batchVars>>
notKeywordVars == <<fetchVars, distVars, boxVars, extractVars, factoryVars,
                    resourceVars, repeatVars, pairVars, batchVars>>
notBatchVars == <<fetchVars, distVars, boxVars, extractVars, factoryVars,
                  resourceVars, repeatVars, pairVars, keywordVars>>

None == "None"

(***************************************************************************)
(* Bounds of the model                                                     *)
(***************************************************************************)
MaxBodyLen == 2
MaxResources == 2
MaxKeywords == 2
MaxTriples == 2
MaxTicks == 2
MaxLines == 2
MaxRuns == 2
MaxWorkers == 2

(***************************************************************************)
(* HTTPClient.download_file                                                *)
(***************************************************************************)
\* stop_after_attempt(3) of the tenacity decorator
StopAfterAttempt == 3

\* retry_if_exception_type((requests.ConnectionError, requests.Timeout))
RetryExceptionTypes == {"ConnectionError", "Timeout"}

\* The bytes a response body is made of: the three accepted first characters,
\* a whitespace, another printable character, and a byte that is not valid
\* UTF-8 (dropped by open(..., errors='ignore')).
Bytes == {"{", "[", "<", " ", "N", "xFF"}
Whitespace == {" "}

RECURSIVE SeqsUpTo(_, _)
SeqsUpTo(S, n) ==
    IF n = 0 THEN {<<>>}
    ELSE LET shorter == SeqsUpTo(S, n - 1)
         IN  shorter \cup {Append(s, x) : s \in {t \in shorter : Len(t) = n - 1}, x \in S}

Bodies == SeqsUpTo(Bytes, MaxBodyLen)

ContentTypes == {"application/json", "application/xml", "text/html"}

\* What self.session.get(...) followed by response.raise_for_status() can do:
\* a 2xx response with a Content-Type and a body, or one of the exceptions.
Responses ==
    [kind : {"ok"}, content_type : ContentTypes, body : Bodies]
    \cup [kind : {"HTTPError", "ConnectionError", "Timeout"},
          content_type : {""}, body : {<<>>}]

\* The file download_file leaves at the destination: written only when the
\* request succeeded (open(dest_path, 'wb') follows raise_for_status).
written_file(resp, old) == IF resp.kind = "ok" THEN resp.body ELSE old

\* The exception that leaves the body of download_file, None when it returns
\* the path.  Every except clause raises DownloadError; the DownloadError
\* raised inside the try block for an empty file is caught by
\* `except Exception` and wrapped once more.
download_file_raises(resp) ==
    CASE resp.kind = "HTTPError"       -> [type |-> "DownloadError", reason |-> "HTTP error"]
      [] resp.kind = "ConnectionError" -> [type |-> "DownloadError", reason |-> "Connection error"]
      [] resp.kind = "Timeout"         -> [type |-> "DownloadError", reason |-> "Request timeout"]
      [] resp.kind = "ok" /\ Len(resp.body) = 0
                                       -> [type |-> "DownloadError",
                                           reason |-> "Unexpected error: Downloaded file is empty"]
      [] OTHER                         -> [type |-> None, reason |-> ""]

\* tenacity: retry when the exception leaving the function is of a retried
\* type and the attempt limit is not reached; otherwise reraise.
tenacity_retries(exc, n) ==
    /\ exc.type \in RetryExceptionTypes
    /\ n < StopAfterAttempt

(***************************************************************************)
(* MetadataFetcher                                                         *)
(***************************************************************************)
Catalogues == {"ceh", "ceda"}
Formats == {"json", "xml"}
UUIDs == {"u1", "u2"}

\* The keys of CATALOGUE_PATTERNS[catalogue]
CATALOGUE_PATTERNS ==
    [ceh  |-> {"base_url", "gemini_xml_url"},
     ceda |-> {"base_url", "json_url", "xml_url"}]

\* patterns[key].format(uuid=uuid)
Url(cat, key, u) == [catalogue |-> cat, key |-> key, uuid |-> u]

Cand(url, fmt) == [url |-> url, format_type |-> fmt]

build_url_list_waf_first(cat, u, pref) ==
    LET patterns == CATALOGUE_PATTERNS[cat]
        base ==
            IF "base_url" \in patterns
            THEN IF pref = "json" THEN <<Cand(Url(cat, "base_url", u), "json")>>
                 ELSE IF pref = "xml" THEN <<Cand(Url(cat, "base_url", u), "xml")>>
                 ELSE <<Cand(Url(cat, "base_url", u), "json"),
                        Cand(Url(cat, "base_url", u), "xml")>>
            ELSE <<>>
        waf ==
            IF "gemini_xml_url" \in patterns
            THEN <<Cand(Url(cat, "gemini_xml_url", u), "xml")>>
            ELSE <<>>
    IN  waf \o base

build_url_list(cat, u, pref) ==
    LET patterns == CATALOGUE_PATTERNS[cat]
        base ==
            IF "base_url" \in patterns
            THEN IF pref = "json" THEN <<Cand(Url(cat, "base_url", u), "json")>>
                 ELSE IF pref = "xml" THEN <<Cand(Url(cat, "base_url", u), "xml")>>
                 ELSE <<Cand(Url(cat, "base_url", u), "json"),
                        Cand(Url(cat, "base_url", u), "xml")>>
            ELSE <<>>
        waf ==
            IF "gemini_xml_url" \in patterns
            THEN <<Cand(Url(cat, "gemini_xml_url", u), "xml")>>
            ELSE <<>>
        legacy_json ==
            IF "json_url" \in patterns /\ pref # "xml"
            THEN <<Cand(Url(cat, "json_url", u), "json")>>
            ELSE <<>>
        legacy_xml ==
            IF "xml_url" \in patterns /\ pref # "json"
            THEN <<Cand(Url(cat, "xml_url", u), "xml")>>
            ELSE <<>>
    IN  base \o waf \o legacy_json \o legacy_xml

\* 'catalogue.ceh.ac.uk/id/' in url
is_ceh_id_url(url) == url.catalogue = "ceh" /\ url.key = "base_url"

\* The Accept header of a candidate's request; "session default" when fetch
\* passes no header and the session's own Accept header applies.
accept_header(cand) ==
    IF is_ceh_id_url(cand.url)
    THEN IF cand.format_type = "json" THEN "application/json"
         ELSE IF cand.format_type = "xml" THEN "application/xml"
         ELSE "session default"
    ELSE "session default"

\* open(path, 'r', encoding='utf-8', errors='ignore'): undecodable bytes vanish
decoded(body) == SelectSeq(body, LAMBDA b : b # "xFF")

\* _verify_file on the file content (NoFile when the path does not exist)
NoFile == <<"NoFile">>
verify_file(content) ==
    IF content = NoFile THEN FALSE
    ELSE IF Len(content) = 0 THEN FALSE
    ELSE IF decoded(content) = <<>> THEN FALSE
    ELSE TRUE   \* an unexpected first character is logged, not rejected

\* The exception classes below Exception that can be raised inside the try
ExceptionTypes == {"DownloadError", "OSError", "ValueError"}

fetch_catches_only_DownloadError(excType) == excType = "DownloadError"

\* The except clauses of fetch: DownloadError, then Exception
fetch_catches(excType) == excType = "DownloadError" \/ excType \in ExceptionTypes

\* str(e) of the exception kept in last_error
str_error(e) ==
    IF e.type = "DownloadError"
    THEN <<"Failed to download", e.url, e.reason>>
    ELSE <<e.reason>>

\* last_error = None
NoError == [type |-> None, url |-> None, reason |-> ""]

error_msg(err) ==
    IF err # NoError THEN str_error(err) ELSE <<"All download attempts failed">>

InitFetchVars ==
    /\ catalogue \in Catalogues
    /\ preferred_format \in Formats \cup {"none"}
    /\ uuid \in UUIDs
    /\ temp_dir_ok \in BOOLEAN
    /\ urls_to_try = <<>>
    /\ idx = 0
    /\ pc = "idle"
    /\ attempt_number = 0
    /\ last_error = NoError
    /\ files = [f \in Formats |-> NoFile]
    /\ wire = <<>>
    /\ tried = <<>>
    /\ outcome = [kind |-> "none"]

IdleFetchVars ==
    /\ catalogue = "ceh"
    /\ preferred_format = "none"
    /\ uuid = "u1"
    /\ temp_dir_ok = TRUE
    /\ urls_to_try = <<>>
    /\ idx = 0
    /\ pc = "off"
    /\ attempt_number = 0
    /\ last_error = NoError
    /\ files = [f \in Formats |-> NoFile]
    /\ wire = <<>>
    /\ tried = <<>>
    /\ outcome = [kind |-> "none"]

\* fetch, up to the for-loop
Fetch ==
    /\ pc = "idle"
    /\ urls_to_try' = build_url_list(catalogue, uuid, preferred_format)
    /\ idx' = 1
    /\ last_error' = NoError
    /\ pc' = "loop"
    /\ UNCHANGED <<catalogue, preferred_format, uuid, temp_dir_ok, attempt_number,
                   files, wire, tried, outcome>>
    /\ UNCHANGED notFetchVars

\* One iteration of the loop up to the call of download_file:
\* _create_temp_file (mkdir may raise) and the headers.
TryCandidate ==
    /\ pc = "loop"
    /\ idx <= Len(urls_to_try)
    /\ IF temp_dir_ok
       THEN /\ pc' = "download"
            /\ attempt_number' = 1
            /\ UNCHANGED <<idx, last_error, tried, outcome>>
       ELSE LET e == [type |-> "OSError", url |-> urls_to_try[idx].url,
                      reason |-> "mkdir failed"]
            IN  IF fetch_catches(e.type)
                THEN /\ last_error' = e
                     /\ tried' = Append(tried, [cand |-> idx, result |-> "raised",
                                                cause |-> "OSError", error |-> e,
                                                attempts |-> 0])
                     /\ idx' = idx + 1
                     /\ UNCHANGED <<pc, attempt_number, outcome>>
                ELSE /\ outcome' = [kind |-> "escaped", type |-> e.type]
                     /\ pc' = "done"
                     /\ UNCHANGED <<idx, last_error, tried, attempt_number>>
    /\ UNCHANGED <<catalogue, preferred_format, uuid, temp_dir_ok, urls_to_try,
                   files, wire>>
    /\ UNCHANGED notFetchVars

\* One attempt of download_file under the tenacity decorator, and, when the
\* call is over, the rest of the loop iteration of fetch.
DownloadAttempt ==
    /\ pc = "download"
    /\ \E resp \in Responses :
        LET cand == urls_to_try[idx]
            raised == download_file_raises(resp)
            exc == [type |-> raised.type, url |-> cand.url, reason |-> raised.reason]
            content == written_file(resp, files[cand.format_type])
        IN  /\ wire' = Append(wire, [cand |-> idx, url |-> cand.url,
                                     format_type |-> cand.format_type,
                                     accept |-> accept_header(cand),
                                     attempt |-> attempt_number])
            /\ files' = [files EXCEPT ![cand.format_type] = content]
            /\ IF exc.type # None /\ tenacity_retries(exc, attempt_number)
               THEN /\ attempt_number' = attempt_number + 1
                    /\ UNCHANGED <<pc, idx, last_error, tried, outcome>>
               ELSE IF exc.type # None
               THEN IF fetch_catches(exc.type)
                    THEN /\ last_error' = exc
                         /\ tried' = Append(tried, [cand |-> idx, result |-> "raised",
                                                    cause |-> resp.kind, error |-> exc,
                                                    attempts |-> attempt_number])
                         /\ idx' = idx + 1
                         /\ pc' = "loop"
                         /\ UNCHANGED <<attempt_number, outcome>>
                    ELSE /\ outcome' = [kind |-> "escaped", type |-> exc.type]
                         /\ pc' = "done"
                         /\ UNCHANGED <<idx, last_error, tried, attempt_number>>
               ELSE IF ~verify_file(content)
               THEN /\ tried' = Append(tried, [cand |-> idx, result |-> "rejected",
                                               cause |-> "verify", error |-> exc,
                                               attempts |-> attempt_number])
                    /\ idx' = idx + 1
                    /\ pc' = "loop"
                    /\ UNCHANGED <<attempt_number, last_error, outcome>>
               ELSE /\ outcome' = [kind |-> "returned", cand |-> idx,
                                   format_type |-> cand.format_type,
                                   content_type |-> resp.content_type,
                                   body |-> content]
                    /\ pc' = "done"
                    /\ UNCHANGED <<idx, last_error, tried, attempt_number>>
    /\ UNCHANGED <<catalogue, preferred_format, uuid, temp_dir_ok, urls_to_try>>
    /\ UNCHANGED notFetchVars

\* After the loop: raise FetchError(uuid, error_msg)
RaiseFetchError ==
    /\ pc = "loop"
    /\ idx > Len(urls_to_try)
    /\ outcome' = [kind |-> "FetchError", uuid |-> uuid, reason |-> error_msg(last_error)]
    /\ pc' = "done"
    /\ UNCHANGED <<catalogue, preferred_format, uuid, temp_dir_ok, urls_to_try, idx,
                   attempt_number, last_error, files, wire, tried>>
    /\ UNCHANGED notFetchVars

(***************************************************************************)
(* Strings.  The extractors test substrings, suffixes and lower-cased      *)
(* forms of URLs, names and function codes; the strings of the model are    *)
(* listed here with the tested patterns that occur in each.                 *)
(***************************************************************************)
U_STORE   == "https://catalogue.ceh.ac.uk/datastore/eidchub/X"
U_PKGZIP  == "https://data-package.ceh.ac.uk/data/X.zip"
U_ZIP     == "https://host/other/X.zip"
U_DOC     == "https://catalogue.ceh.ac.uk/documents/X"
U_PAGE    == "https://host/page/X"
U_SUPPORT == "https://host/support/X.zip"
FILE_ID   == "id1"
\* f"https://catalogue.ceh.ac.uk/datastore/eidchub/{file_id}"
ceh_datastore_url(file_id) ==
    IF file_id = FILE_ID THEN "https://catalogue.ceh.ac.uk/datastore/eidchub/id1" ELSE ""

Occurrences ==
    (U_STORE   :> {"datastore/eidchub", "catalogue.ceh.ac.uk"}) @@
    (U_PKGZIP  :> {"data-package.ceh.ac.uk/data"}) @@
    (U_ZIP     :> {}) @@
    (U_DOC     :> {"catalogue.ceh.ac.uk", "documents/", "catalogue.ceh.ac.uk/documents/"}) @@
    (U_PAGE    :> {}) @@
    (U_SUPPORT :> {"support"}) @@
    ("https://catalogue.ceh.ac.uk/datastore/eidchub/id1"
               :> {"datastore/eidchub", "catalogue.ceh.ac.uk"}) @@
    (""                       :> {}) @@
    ("supporting information" :> {"support", "supporting", "information"}) @@
    ("download the data"      :> {"download"}) @@
    ("download"               :> {"download"}) @@
    ("fileaccess"             :> {"fileaccess"}) @@
    ("information"            :> {"information"})

\* sub in s
contains(s, sub) == sub \in Occurrences[s]

\* s.endswith(".zip")
endswith_zip(s) == s \in {U_PKGZIP, U_ZIP, U_SUPPORT}

\* s.lower()
lower(s) ==
    CASE s = "fileAccess"             -> "fileaccess"
      [] s = "Supporting information" -> "supporting information"
      [] s = "Download the data"      -> "download the data"
      [] s = "A.JSON"                 -> "a.json"
      [] s = "b.TSV"                  -> "b.tsv"
      [] s = "CSV"                    -> "csv"
      [] s = ".CSV"                   -> ".csv"
      [] OTHER                        -> s

(***************************************************************************)
(* Documents: the online resources of a record and its top-level fields    *)
(***************************************************************************)
Res(url, name, func) == [url |-> url, name |-> name, function |-> func]

FunctionCodes == {"", "download", "fileAccess", "information"}

\* Every URL with every function code and no name, plus named resources and
\* a resource without a URL.
ResourcePool ==
    {Res(u, "", f) : u \in {U_STORE, U_PKGZIP, U_ZIP, U_DOC, U_PAGE}, f \in FunctionCodes}
    \cup {Res(U_ZIP, "Supporting information", "download"),
          Res(U_STORE, "Supporting information", "fileAccess"),
          Res(U_SUPPORT, "", "download"),
          Res(U_PAGE, "Download the data", ""),
          Res("", "", "fileAccess")}

ResourceLists == SeqsUpTo(ResourcePool, MaxResources)

\* JSON: onlineResources, infoLinks, uri, downloadUrl.  XML: the
\* CI_OnlineResource elements and gmd:fileIdentifier.
Docs ==
    {d \in [format : {"json"}, resources : ResourceLists,
            info_links : {<<>>, <<Res(U_DOC, "", "information")>>},
            uri : {"", U_DOC}, downloadUrl : {"", U_ZIP}, fileIdentifier : {""}] :
        \* at most one of the top-level fields is present
        /\ (d.info_links # <<>> => (d.uri = "" /\ d.downloadUrl = ""))
        /\ (d.uri # "" => d.downloadUrl = "")}
    \cup [format : {"xml"}, resources : ResourceLists, info_links : {<<>>},
          uri : {""}, downloadUrl : {""}, fileIdentifier : {"", FILE_ID}]

NoDist == [done |-> FALSE, download_url |-> "", landing_page_url |-> "",
           access_type |-> ""]
Dist(d, l, a) == [done |-> TRUE, download_url |-> d, landing_page_url |-> l,
                  access_type |-> a]

\* list.sort(key=lambda x: x[0], reverse=True): stable, descending priority
RECURSIVE sort_by_priority(_)
sort_by_priority(s) ==
    IF s = <<>> THEN <<>>
    ELSE LET x == Head(s)
             rest == sort_by_priority(Tail(s))
             before == SelectSeq(rest, LAMBDA y : y.priority > x.priority)
             after == SelectSeq(rest, LAMBDA y : y.priority <= x.priority)
         IN  before \o <<x>> \o after

\* The URL of the first of the matching resources, "" when there is none
FirstUrl(hits) == IF hits = <<>> THEN "" ELSE hits[1].url

(***************************************************************************)
(* JSONExtractor._extract_distribution_info                                *)
(***************************************************************************)
json_is_supporting_resource(url, name, func) ==
    LET name_l == lower(name)
        func_l == lower(func)
    IN  \/ contains(name_l, "support") \/ contains(name_l, "supporting")
        \/ contains(url, "/sd/")
        \/ (func_l = "information" /\ endswith_zip(url))

json_priority(url, func, name) ==
    LET func_l == lower(func)
        name_l == lower(name)
        is_datastore == contains(url, "datastore/eidchub")
        is_data_package == contains(url, "data-package.ceh.ac.uk/data")
        is_zip == endswith_zip(url)
        is_download == contains(func_l, "download") \/ contains(name_l, "download")
        is_file_access == func_l = "fileaccess"
    IN  IF (is_download \/ is_file_access) /\ (is_datastore \/ is_data_package) THEN 3
        ELSE IF is_datastore \/ is_data_package THEN 2
        ELSE IF is_download \/ is_file_access THEN 1
        ELSE IF is_zip THEN 1
        ELSE 0

\* whether add_download_candidate appends (priority, url, func_l)
json_is_candidate(r) ==
    /\ r.url # ""
    /\ ~json_is_supporting_resource(r.url, r.name, r.function)
    /\ json_priority(r.url, r.function, r.name) > 0

\* whether add_download_candidate records "fileAccess" for the resource
json_detects_file_access(r) == r.url # "" /\ lower(r.function) = "fileaccess"

json_is_landing(r) ==
    /\ r.url # ""
    /\ \/ ((lower(r.function) = "information" \/ contains(lower(r.name), "information"))
           /\ ~endswith_zip(r.url))
       \/ (contains(r.url, "catalogue.ceh.ac.uk") /\ ~endswith_zip(r.url))

json_extract_distribution_info(data) ==
    LET offered == data.resources \o
                   (IF data.downloadUrl # ""
                    THEN <<Res(data.downloadUrl, "download", "download")>> ELSE <<>>)
        kept == SelectSeq(offered, json_is_candidate)
        download_candidates ==
            sort_by_priority([i \in DOMAIN kept |->
                [priority |-> json_priority(kept[i].url, kept[i].function, kept[i].name),
                 url |-> kept[i].url, func |-> lower(kept[i].function)]])
        download_url == IF download_candidates # <<>> THEN download_candidates[1].url ELSE ""
        access_type ==
            IF \E i \in DOMAIN offered : json_detects_file_access(offered[i])
            THEN "fileAccess" ELSE "download"
        landing_page_url ==
            IF data.uri # "" THEN data.uri
            ELSE FirstUrl(SelectSeq(data.info_links \o data.resources, json_is_landing))
    IN  Dist(download_url, landing_page_url, access_type)

(***************************************************************************)
(* XMLExtractor._extract_distribution_info                                 *)
(***************************************************************************)
xml_is_download_candidate(r) ==
    LET is_ceh_datastore == contains(r.url, "datastore/eidchub") \/ contains(r.url, "eidc/download")
        is_zip_file == endswith_zip(r.url)
        is_download == contains(lower(r.function), "download") \/ contains(lower(r.name), "download")
        is_file_access == contains(lower(r.function), "fileaccess")
    IN  is_download \/ is_file_access \/ is_ceh_datastore \/ is_zip_file

xml_priority(r) ==
    LET is_ceh_datastore == contains(r.url, "datastore/eidchub") \/ contains(r.url, "eidc/download")
        is_download == contains(lower(r.function), "download") \/ contains(lower(r.name), "download")
        is_file_access == contains(lower(r.function), "fileaccess")
    IN  IF (is_download \/ is_file_access) /\ is_ceh_datastore THEN 3
        ELSE IF is_ceh_datastore THEN 2
        ELSE IF is_download \/ is_file_access THEN 1
        ELSE 0

xml_is_landing(r) ==
    \/ contains(lower(r.function), "information")
    \/ contains(r.url, "landing")
    \/ contains(r.url, "documents/")
    \/ contains(r.url, "catalogue.ceh.ac.uk/documents/")

xml_extract_distribution_info(root) ==
    IF root.resources = <<>> THEN Dist("", "", "download")
    ELSE
    LET with_url == SelectSeq(root.resources, LAMBDA r : r.url # "")
        kept == SelectSeq(with_url, xml_is_download_candidate)
        download_candidates ==
            sort_by_priority([i \in DOMAIN kept |->
                [priority |-> xml_priority(kept[i]), url |-> kept[i].url,
                 func |-> lower(kept[i].function)]])
        detected_file_access ==
            \E i \in DOMAIN with_url : lower(with_url[i].function) = "fileaccess"
        top_is_file_access ==
            download_candidates # <<>> /\ download_candidates[1].func = "fileaccess"
        access_type ==
            IF detected_file_access \/ top_is_file_access THEN "fileAccess" ELSE "download"
        best == IF download_candidates # <<>> THEN download_candidates[1].url ELSE ""
        download_url ==
            IF best # "" THEN best
            ELSE IF root.fileIdentifier # "" THEN ceh_datastore_url(root.fileIdentifier)
            ELSE ""
        landing == FirstUrl(SelectSeq(with_url, xml_is_landing))
        landing_page_url ==
            IF landing = "" /\ download_url # "" /\ ~endswith_zip(download_url)
            THEN download_url ELSE landing
    IN  Dist(download_url, landing_page_url, access_type)

ExtractJSON ==
    /\ doc.format = "json"
    /\ ~dist.done
    /\ dist' = json_extract_distribution_info(doc)
    /\ UNCHANGED doc
    /\ UNCHANGED notDistVars

ExtractXML ==
    /\ doc.format = "xml"
    /\ ~dist.done
    /\ dist' = xml_extract_distribution_info(doc)
    /\ UNCHANGED doc
    /\ UNCHANGED notDistVars

IdleDistVars ==
    /\ doc = [format |-> "none", resources |-> <<>>, info_links |-> <<>>, uri |-> "",
              downloadUrl |-> "", fileIdentifier |-> ""]
    /\ dist = NoDist

(***************************************************************************)
(* Domain entities (domain/entities/metadata.py)                           *)
(***************************************************************************)
\* Optional[...]: None is the empty tuple, a value v is <<v>>
Nothing == <<>>
Some(v) == <<v>>

\* Coordinates around the limits of the two ranges
Longitudes == {-181, -180, 0, 180, 181}
Latitudes == {-91, -90, 0, 90, 91}

BoundingBox_raises_without_order_check(west, east, south, north) ==
    \/ ~(-180 <= west /\ west <= 180)
    \/ ~(-180 <= east /\ east <= 180)
    \/ ~(-90 <= south /\ south <= 90)
    \/ ~(-90 <= north /\ north <= 90)

\* BoundingBox.__post_init__: whether it raises ValueError
BoundingBox_raises(west, east, south, north) ==
    \/ ~(-180 <= west /\ west <= 180)
    \/ ~(-180 <= east /\ east <= 180)
    \/ ~(-90 <= south /\ south <= 90)
    \/ ~(-90 <= north /\ north <= 90)
    \/ west > east
    \/ south > north

\* The frozen dataclass instance: the fields are the arguments, as given
BoundingBox(west, east, south, north) ==
    [west_longitude |-> west, east_longitude |-> east,
     south_latitude |-> south, north_latitude |-> north]

NoCall == [done |-> FALSE, raised |-> None, value |-> Nothing]
Returned(v) == [done |-> TRUE, raised |-> None, value |-> Some(v)]
RaisedError(e) == [done |-> TRUE, raised |-> e, value |-> Nothing]

\* BoundingBox(west_longitude=..., east_longitude=..., ...)
ConstructBoundingBox ==
    /\ ~box.done
    /\ box' = IF BoundingBox_raises(coords.west, coords.east, coords.south, coords.north)
              THEN RaisedError("ValueError")
              ELSE Returned(BoundingBox(coords.west, coords.east,
                                        coords.south, coords.north))
    /\ UNCHANGED coords
    /\ UNCHANGED notBoxVars

IdleBoxVars ==
    /\ coords = [west |-> 0, east |-> 0, south |-> 0, north |-> 0]
    /\ box = NoCall

\* str.strip() and the blank test "not s or not s.strip()" on the texts used
Texts == {"", " ", "X", " Y "}
strip(s) == CASE s = " " -> ""
              [] s = " Y " -> "Y"
              [] OTHER -> s
is_blank(s) == s = "" \/ strip(s) = ""

\* Metadata.__post_init__: whether it raises ValueError
Metadata_raises_without_temporal_check(m) ==
    \/ is_blank(m.title)
    \/ is_blank(m.abstract)

Metadata_raises(m) ==
    \/ is_blank(m.title)
    \/ is_blank(m.abstract)
    \/ /\ m.temporal_extent_start # Nothing
       /\ m.temporal_extent_end # Nothing
       /\ m.temporal_extent_start[1] > m.temporal_extent_end[1]

\* The fields of the Metadata entity that the mandatory-field, keyword,
\* bounding-box and temporal rules concern
Metadata(title, abstract, keywords, bounding_box, start, end) ==
    [title |-> title, abstract |-> abstract, keywords |-> keywords,
     bounding_box |-> bounding_box,
     temporal_extent_start |-> start, temporal_extent_end |-> end]

(***************************************************************************)
(* Values found in source documents, and their conversions                 *)
(***************************************************************************)
\* A mandatory text: absent (None), empty, blank, present, present padded
SourceTexts == {None} \cup Texts

\* Coordinate literals, and float(): Nothing where float() raises ValueError
RawLongitudes == {"abc", "-181", "-180", "180", "181"}
RawLatitudes == {"abc", "-91", "-90", "90", "91"}
float(s) == CASE s = "-181" -> Some(-181) [] s = "-180" -> Some(-180)
              [] s = "180" -> Some(180) [] s = "181" -> Some(181)
              [] s = "-91" -> Some(-91) [] s = "-90" -> Some(-90)
              [] s = "90" -> Some(90) [] s = "91" -> Some(91)
              [] OTHER -> Nothing

\* Date literals; a parsed datetime is its yyyymmdd number
RawDates == {"2020-01-01", "2021-06-01T00:00:00Z", "2020", "not-a-date"}
strptime(s, year_only) ==
    CASE s = "2020-01-01" -> Some(20200101)
      [] s = "2021-06-01T00:00:00Z" -> Some(20210601)
      [] s = "2020" /\ year_only -> Some(20200101)
      [] OTHER -> Nothing

\* Interval literals of temporalCoverage / dct:temporal, and str.split('/')
RawIntervals == {"2020", "not-a-date", "2020-01-01/2021-06-01T00:00:00Z",
                 "2021-06-01T00:00:00Z/2020-01-01", "2020-01-01/2020/2020"}
split_slash(s) ==
    CASE s = "2020-01-01/2021-06-01T00:00:00Z" -> <<"2020-01-01", "2021-06-01T00:00:00Z">>
      [] s = "2021-06-01T00:00:00Z/2020-01-01" -> <<"2021-06-01T00:00:00Z", "2020-01-01">>
      [] s = "2020-01-01/2020/2020" -> <<"2020-01-01", "2020", "2020">>
      [] OTHER -> <<s>>

\* Keyword texts
KeywordTexts == {"A", "B"}

\* Order-preserving removal of later duplicates
RECURSIVE dedup(_)
dedup(s) ==
    IF s = <<>> THEN <<>>
    ELSE LET front == dedup(SubSeq(s, 1, Len(s) - 1))
             last == s[Len(s)]
         IN  IF \E i \in DOMAIN front : front[i] = last THEN front
             ELSE Append(front, last)

\* Concatenation of a sequence of sequences
RECURSIVE flatten(_)
flatten(ss) == IF ss = <<>> THEN <<>> ELSE Head(ss) \o flatten(Tail(ss))

\* Python truthiness of an optional string
truthy(s) == s # None /\ s # ""

\* What a helper gives: a value, or the exception it raises
Ok(v) == [raises |-> None, value |-> v]
Raise(e) == [raises |-> e, value |-> Nothing]

(***************************************************************************)
(* extract(source_path): the checks before the try, and the except clauses *)
(***************************************************************************)
\* The file at source_path: os.path.exists, can_extract, and what open and
\* the parser meet ("parsed": the content is the value of source)
SourceFile(exists, accepted, content) ==
    [exists |-> exists, accepted |-> accepted, content |-> content]
FileParsed == SourceFile(TRUE, TRUE, "parsed")

\* isinstance(exc, class) for the classes the except clauses name
is_instance(exc, class) ==
    \/ class = "Exception"
    \/ class = exc
    \/ class = "ValueError" /\ exc \in {"JSONDecodeError", "UnicodeDecodeError"}

\* The except clauses of extract, in order; each raises
\* MetadataExtractionError
except_clauses_without_catch_all(format) ==
    CASE format \in {"json", "jsonld"} -> <<"JSONDecodeError", "ValueError">>
      [] format = "xml" -> <<"XMLSyntaxError", "ValueError">>
      [] format = "rdf" -> <<"ValueError">>

except_clauses(format) ==
    CASE format \in {"json", "jsonld"} -> <<"JSONDecodeError", "ValueError", "Exception">>
      [] format = "xml" -> <<"XMLSyntaxError", "ValueError", "Exception">>
      [] format = "rdf" -> <<"ValueError", "Exception">>

\* What leaves extract when exc is raised inside the try: an exception that
\* no clause names propagates as it is
RECURSIVE handled(_, _)
handled(exc, clauses) ==
    IF clauses = <<>> THEN exc
    ELSE IF is_instance(exc, Head(clauses)) THEN "MetadataExtractionError"
    ELSE handled(exc, Tail(clauses))

\* The exception raised inside the try before any field is read: by open (a
\* directory, bytes that are no UTF-8), by json.load / etree.parse (bad
\* syntax), or by the first data.get / "in data" when the JSON value is an
\* array
parse_raises(ext, content) ==
    CASE content = "unreadable" -> "OSError"
      [] content = "undecodable" ->
            IF ext.format = "xml" THEN "XMLSyntaxError" ELSE "UnicodeDecodeError"
      [] content = "malformed" ->
            IF ext.format = "xml" THEN "XMLSyntaxError" ELSE "JSONDecodeError"
      [] content = "array" ->
            IF ext.format = "jsonld" /\ ext.strict_mode THEN "MetadataExtractionError"
            ELSE "AttributeError"
      [] OTHER -> None

\* extract(source_path); body is what the try gives on the parsed content
extract(ext, file, body) ==
    IF ~file.exists THEN RaisedError("FileNotFoundError")
    ELSE IF ~file.accepted THEN RaisedError("UnsupportedFormatError")
    ELSE IF parse_raises(ext, file.content) # None
         THEN RaisedError(handled(parse_raises(ext, file.content),
                                  except_clauses(ext.format)))
    ELSE body

\* The contents that fail before any field is read, by format: the Turtle
\* reader is a set of regular expressions and accepts any text
FileContents(format) ==
    {"parsed", "unreadable", "undecodable"}
    \cup (IF format = "rdf" THEN {} ELSE {"malformed"})
    \cup (IF format \in {"json", "jsonld"} THEN {"array"} ELSE {})
SourceFiles(format) ==
    {SourceFile(FALSE, a, "parsed") : a \in BOOLEAN}
    \cup {SourceFile(TRUE, FALSE, "parsed")}
    \cup {SourceFile(TRUE, TRUE, c) : c \in FileContents(format)}

(***************************************************************************)
(* JSONExtractor.extract                                                   *)
(***************************************************************************)
\* f"[Missing {field_name}]"
json_placeholder(field_name) ==
    CASE field_name = "title" -> "[Missing title]"
      [] field_name = "abstract" -> "[Missing abstract]"

json_get_required_field_capitalised(data, field_name, strict_mode) ==
    LET value == data[field_name]
    IN  IF value = None \/ is_blank(value)
        THEN IF strict_mode THEN Raise("ValueError")
             ELSE Ok(IF field_name = "title" THEN "[Missing Title]" ELSE "[Missing Abstract]")
        ELSE Ok(value)

json_get_required_field(data, field_name, strict_mode) ==
    LET value == data[field_name]
    IN  IF value = None \/ is_blank(value)
        THEN IF strict_mode THEN Raise("ValueError")
             ELSE Ok(json_placeholder(field_name))
        ELSE Ok(value)

\* An item of a keyword list: a bare string or an object with value / label
KwStr(s) == [is_dict |-> FALSE, str |-> s, value |-> None, label |-> None]
KwDict(v, l) == [is_dict |-> TRUE, str |-> None, value |-> v, label |-> l]

\* The keywords one item of a themed list contributes (none or one)
json_themed_item(item) ==
    IF item.is_dict
    THEN LET value == IF truthy(item.value) THEN item.value ELSE item.label
         IN  IF truthy(value) THEN <<value>> ELSE <<>>
    ELSE IF truthy(item.str) THEN <<item.str>> ELSE <<>>

json_extract_keywords_themes_first(data) ==
    LET themed(items) == flatten([i \in DOMAIN items |-> json_themed_item(items[i])])
    IN  dedup(themed(data.keywordsTheme) \o themed(data.keywordsPlace)
              \o themed(data.keywordsOther) \o SelectSeq(data.keywords, truthy))

json_extract_keywords(data) ==
    LET themed(items) == flatten([i \in DOMAIN items |-> json_themed_item(items[i])])
        keywords == SelectSeq(data.keywords, truthy)
                    \o themed(data.keywordsTheme)
                    \o themed(data.keywordsPlace)
                    \o themed(data.keywordsOther)
    IN  dedup(keywords)

\* bbox_data is data.get('bounding_box') or data.get('boundingBoxes'): an
\* object (Some), or a list of objects, or None
json_extract_bounding_box(data, strict_mode) ==
    LET \* an object without any of the keys is {}, which is falsy
        given == /\ data.bounding_box # Nothing
                 /\ \E k \in {"west", "east", "south", "north"} :
                       data.bounding_box[1][k] # None
        first == IF given THEN data.bounding_box
                 ELSE IF data.boundingBoxes # <<>> THEN <<data.boundingBoxes[1]>>
                 ELSE Nothing
        failed == IF strict_mode THEN Raise("ValueError") ELSE Ok(Nothing)
    IN  IF first = Nothing THEN Ok(Nothing)
        ELSE LET b == first[1]
                 west == float(b.west)
                 east == float(b.east)
                 south == float(b.south)
                 north == float(b.north)
             IN  IF b.west = None \/ b.east = None \/ b.south = None \/ b.north = None
                 THEN failed
                 ELSE IF Nothing \in {west, east, south, north} THEN failed
                 ELSE IF BoundingBox_raises(west[1], east[1], south[1], north[1])
                 THEN failed
                 ELSE Ok(Some(BoundingBox(west[1], east[1], south[1], north[1])))

\* JSONExtractor._parse_datetime: no year-only format
json_parse_datetime(date_str) ==
    IF date_str = None THEN Nothing ELSE strptime(date_str, FALSE)

json_extract_temporal_extent(data) ==
    LET start == json_parse_datetime(data.temporal_extent.start)
        end == json_parse_datetime(data.temporal_extent.end)
    IN  IF start # Nothing \/ end # Nothing THEN <<start, end>>
        ELSE IF data.temporalExtents # <<>>
        THEN <<json_parse_datetime(data.temporalExtents[1].begin),
               json_parse_datetime(data.temporalExtents[1].end)>>
        ELSE <<Nothing, Nothing>>

json_transform_to_metadata(data, strict_mode) ==
    LET title == json_get_required_field(data, "title", strict_mode)
        first == IF truthy(data.abstract) THEN data.abstract ELSE data.description
        abstract == IF ~truthy(first) \/ is_blank(first)
                    THEN json_get_required_field(data, "abstract", strict_mode)
                    ELSE Ok(first)
        keywords == json_extract_keywords(data)
        bounding_box == json_extract_bounding_box(data, strict_mode)
        temporal == json_extract_temporal_extent(data)
    IN  IF title.raises # None THEN title
        ELSE IF abstract.raises # None THEN abstract
        ELSE IF bounding_box.raises # None THEN bounding_box
        ELSE LET m == Metadata(title.value, abstract.value, keywords,
                               bounding_box.value, temporal[1], temporal[2])
             IN  IF Metadata_raises(m) THEN Raise("ValueError") ELSE Ok(m)

\* extract: every exception of the transformation leaves as
\* MetadataExtractionError
json_extract(data, strict_mode) ==
    LET got == json_transform_to_metadata(data, strict_mode)
    IN  IF got.raises # None THEN RaisedError("MetadataExtractionError")
        ELSE Returned(got.value)

\* The JSON documents: a complete record, varied in one group of fields
JsonBase ==
    [format |-> "json", title |-> "X", abstract |-> "X", description |-> None,
     keywords |-> <<>>, keywordsTheme |-> <<>>, keywordsPlace |-> <<>>,
     keywordsOther |-> <<>>, bounding_box |-> Nothing, boundingBoxes |-> <<>>,
     temporal_extent |-> [start |-> None, end |-> None], temporalExtents |-> <<>>]
JsonKeywordItems ==
    {KwStr("A"), KwStr(""), KwDict("A", None), KwDict(None, "B"), KwDict("", "A"),
     KwDict(None, None)}
JsonRawBoxes ==
    [west : RawLongitudes \cup {None}, east : RawLongitudes \cup {None},
     south : RawLatitudes \cup {None}, north : RawLatitudes \cup {None}]
JsonDocs ==
    {[JsonBase EXCEPT !.title = t, !.abstract = a, !.description = d] :
        t \in SourceTexts, a \in SourceTexts, d \in SourceTexts}
    \cup {[JsonBase EXCEPT !.bounding_box = Some(b)] : b \in JsonRawBoxes}
    \cup {[JsonBase EXCEPT !.boundingBoxes = <<b>>] : b \in JsonRawBoxes}
    \cup {[JsonBase EXCEPT !.temporal_extent = [start |-> a, end |-> b]] :
            a \in RawDates \cup {None}, b \in RawDates \cup {None}}
    \cup {[JsonBase EXCEPT !.temporalExtents = <<[begin |-> a, end |-> b]>>] :
            a \in RawDates \cup {None}, b \in RawDates \cup {None}}
    \cup {[JsonBase EXCEPT !.keywords = k, !.keywordsTheme = t, !.keywordsPlace = p,
                           !.keywordsOther = o] :
            k \in SeqsUpTo(KeywordTexts \cup {""}, MaxKeywords),
            t \in SeqsUpTo(JsonKeywordItems, MaxKeywords),
            p \in {<<>>, <<KwStr("B")>>, <<KwDict("A", None)>>},
            o \in {<<>>, <<KwStr("B")>>, <<KwDict("A", None)>>}}

ExtractJSONFile ==
    /\ extractor.format = "json"
    /\ ~result.done
    /\ result' = extract(extractor, source_file,
                       json_extract(source, extractor.strict_mode))
    /\ UNCHANGED <<extractor, source, source_file>>
    /\ UNCHANGED notExtractVars

(***************************************************************************)
(* XMLExtractor.extract                                                    *)
(***************************************************************************)
\* _extract_text: texts[i] is the text of the first element that the i-th
\* XPath pattern finds (None when it finds none or the element is empty)
RECURSIVE xml_extract_text(_)
xml_extract_text(texts) ==
    IF texts = <<>> THEN None
    ELSE IF truthy(Head(texts)) THEN strip(Head(texts))
    ELSE xml_extract_text(Tail(texts))

xml_extract_title(root, strict_mode) ==
    LET title == xml_extract_text(<<root.title.CharacterString, root.title.Anchor>>)
    IN  IF ~truthy(title)
        THEN IF strict_mode THEN Raise("ValueError") ELSE Ok("[Missing Title]")
        ELSE Ok(title)

xml_extract_abstract(root, strict_mode) ==
    LET abstract == xml_extract_text(<<root.abstract>>)
    IN  IF ~truthy(abstract)
        THEN IF strict_mode THEN Raise("ValueError") ELSE Ok("[Missing Abstract]")
        ELSE Ok(abstract)

\* One pass of _extract_keywords over the gmd:keyword elements of one tag,
\* appending to the keywords collected so far
RECURSIVE xml_collect(_, _, _)
xml_collect(elements, tag, keywords) ==
    IF elements = <<>> THEN keywords
    ELSE LET elem == Head(elements)
             keyword == strip(elem.text)
             found == /\ elem.tag = tag
                      /\ truthy(elem.text) /\ truthy(keyword)
                      /\ ~\E i \in DOMAIN keywords : keywords[i] = keyword
         IN  xml_collect(Tail(elements), tag,
                         IF found THEN Append(keywords, keyword) ELSE keywords)

xml_extract_keywords(root) ==
    xml_collect(root.keywords, "Anchor",
                xml_collect(root.keywords, "CharacterString", <<>>))

\* _extract_decimal: None when the element is absent or float() fails
xml_extract_decimal(text) == IF truthy(text) THEN float(strip(text)) ELSE Nothing

xml_extract_bounding_box(root) ==
    IF root.bounding_box = Nothing THEN Nothing
    ELSE LET b == root.bounding_box[1]
             west == xml_extract_decimal(b.west)
             east == xml_extract_decimal(b.east)
             south == xml_extract_decimal(b.south)
             north == xml_extract_decimal(b.north)
         IN  IF Nothing \in {west, east, south, north} THEN Nothing
             ELSE IF BoundingBox_raises(west[1], east[1], south[1], north[1])
             THEN Nothing
             ELSE Some(BoundingBox(west[1], east[1], south[1], north[1]))

\* XMLExtractor._parse_datetime: accepts a bare year
xml_parse_datetime(date_str) ==
    IF ~truthy(date_str) THEN Nothing ELSE strptime(strip(date_str), TRUE)

xml_extract_temporal_extent(root) ==
    <<IF truthy(root.beginPosition) THEN xml_parse_datetime(root.beginPosition)
      ELSE Nothing,
      IF truthy(root.endPosition) THEN xml_parse_datetime(root.endPosition)
      ELSE Nothing>>

xml_transform_to_metadata(root, strict_mode) ==
    LET title == xml_extract_title(root, strict_mode)
        abstract == xml_extract_abstract(root, strict_mode)
        temporal == xml_extract_temporal_extent(root)
    IN  IF title.raises # None THEN title
        ELSE IF abstract.raises # None THEN abstract
        ELSE LET m == Metadata(title.value, abstract.value, xml_extract_keywords(root),
                               xml_extract_bounding_box(root), temporal[1], temporal[2])
             IN  IF Metadata_raises(m) THEN Raise("ValueError") ELSE Ok(m)

xml_extract(root, strict_mode) ==
    LET got == xml_transform_to_metadata(root, strict_mode)
    IN  IF got.raises # None THEN RaisedError("MetadataExtractionError")
        ELSE Returned(got.value)

\* The XML documents: a complete record, varied in one group of elements
XmlBase ==
    [format |-> "xml", title |-> [CharacterString |-> "X", Anchor |-> None],
     abstract |-> "X", keywords |-> <<>>, bounding_box |-> Nothing,
     beginPosition |-> None, endPosition |-> None]
XmlKeywordElements ==
    [tag : {"CharacterString", "Anchor"}, text : KeywordTexts \cup {None, " "}]
XmlRawBoxes ==
    [west : RawLongitudes \cup {None}, east : RawLongitudes \cup {None},
     south : RawLatitudes \cup {None}, north : RawLatitudes \cup {None}]
XmlDocs ==
    {[XmlBase EXCEPT !.title = [CharacterString |-> t, Anchor |-> n], !.abstract = a] :
        t \in SourceTexts, n \in SourceTexts, a \in SourceTexts}
    \cup {[XmlBase EXCEPT !.bounding_box = Some(b)] : b \in XmlRawBoxes}
    \cup {[XmlBase EXCEPT !.beginPosition = a, !.endPosition = b] :
            a \in RawDates \cup {None}, b \in RawDates \cup {None}}
    \cup {[XmlBase EXCEPT !.keywords = k] : k \in SeqsUpTo(XmlKeywordElements, MaxKeywords)}

ExtractXMLFile ==
    /\ extractor.format = "xml"
    /\ ~result.done
    /\ result' = extract(extractor, source_file,
                       xml_extract(source, extractor.strict_mode))
    /\ UNCHANGED <<extractor, source, source_file>>
    /\ UNCHANGED notExtractVars

(***************************************************************************)
(* JSONLDExtractor.extract                                                 *)
(***************************************************************************)
SUPPORTED_TYPES == {"Dataset", "DataCatalog", "CreativeWork"}

\* _validate_jsonld_structure: whether it raises MetadataExtractionError
jsonld_validate_raises(data, strict_mode) ==
    /\ strict_mode
    /\ \/ ~data.context
       \/ (IF data.type = None THEN "" ELSE data.type) \notin SUPPORTED_TYPES

\* A comma-separated keywords string, and [k.strip() for k in s.split(',') if k.strip()]
KeywordStrings == {"A, B", "A,,A"}
split_comma_stripped(s) ==
    CASE s = "A, B" -> <<"A", "B">>
      [] s = "A,,A" -> <<"A", "A">>
      [] OTHER -> <<s>>

jsonld_extract_keywords(data) ==
    IF data.keywords.kind = "str" THEN split_comma_stripped(data.keywords.str)
    ELSE IF data.keywords.kind = "list" THEN data.keywords.list
    ELSE <<>>

\* spatialCoverage: geo.box is the sequence of tokens that
\* box_str.replace(',', ' ').split() gives, in the order south west north east
jsonld_extract_bounding_box(spatial) ==
    IF spatial = Nothing THEN Nothing
    ELSE LET geo == spatial[1]
             four == geo.box # Nothing /\ Len(geo.box[1]) = 4
             parts == geo.box[1]
             lat == float(geo.latitude)
             lon == float(geo.longitude)
         IN  IF four
             THEN LET south == float(parts[1])
                      west == float(parts[2])
                      north == float(parts[3])
                      east == float(parts[4])
                  IN  IF Nothing \in {south, west, north, east} THEN Nothing
                      ELSE IF BoundingBox_raises(west[1], east[1], south[1], north[1])
                      THEN Nothing
                      ELSE Some(BoundingBox(west[1], east[1], south[1], north[1]))
             ELSE IF geo.latitude # None /\ geo.longitude # None
             THEN IF Nothing \in {lat, lon} THEN Nothing
                  ELSE IF BoundingBox_raises(lon[1], lon[1], lat[1], lat[1]) THEN Nothing
                  ELSE Some(BoundingBox(lon[1], lon[1], lat[1], lat[1]))
             ELSE Nothing

\* JSONLDExtractor._parse_datetime: accepts a bare year
jsonld_parse_datetime(date_str) ==
    IF date_str = None THEN Nothing ELSE strptime(date_str, TRUE)

jsonld_extract_temporal_coverage(temporal) ==
    IF temporal = None THEN <<Nothing, Nothing>>
    ELSE LET parts == split_slash(temporal)
         IN  IF Len(parts) > 1
             THEN IF Len(parts) = 2
                  THEN <<jsonld_parse_datetime(parts[1]), jsonld_parse_datetime(parts[2])>>
                  ELSE <<Nothing, Nothing>>
             ELSE <<jsonld_parse_datetime(temporal), jsonld_parse_datetime(temporal)>>

jsonld_transform_to_metadata(data) ==
    LET title == IF data.name # None THEN data.name
                 ELSE IF data.headline # None THEN data.headline
                 ELSE "[Missing title]"
        abstract == IF data.description # None THEN data.description
                    ELSE "[Missing description]"
        temporal == jsonld_extract_temporal_coverage(data.temporalCoverage)
        m == Metadata(title, abstract, jsonld_extract_keywords(data),
                      jsonld_extract_bounding_box(data.spatialCoverage),
                      temporal[1], temporal[2])
    IN  IF Metadata_raises(m) THEN Raise("ValueError") ELSE Ok(m)

jsonld_extract(data, strict_mode) ==
    IF jsonld_validate_raises(data, strict_mode)
    THEN RaisedError("MetadataExtractionError")
    ELSE LET got == jsonld_transform_to_metadata(data)
         IN  IF got.raises # None THEN RaisedError("MetadataExtractionError")
             ELSE Returned(got.value)

\* The JSON-LD documents: a complete record, varied in one group of properties
NoGeo == [box |-> Nothing, latitude |-> None, longitude |-> None]
JsonLdBase ==
    [format |-> "jsonld", context |-> TRUE, type |-> "Dataset", name |-> "X",
     headline |-> None, description |-> "X",
     keywords |-> [kind |-> "absent", str |-> "", list |-> <<>>],
     spatialCoverage |-> Nothing, temporalCoverage |-> None]
JsonLdDocs ==
    {[JsonLdBase EXCEPT !.context = c, !.type = ty, !.name = n, !.headline = h,
                        !.description = d] :
        c \in BOOLEAN, ty \in {None, "Dataset", "Thing"}, n \in SourceTexts,
        h \in {None, "X"}, d \in SourceTexts}
    \cup {[JsonLdBase EXCEPT !.spatialCoverage =
              Some([NoGeo EXCEPT !.box = Some(<<so, w, n, e>>)])] :
            so \in RawLatitudes, w \in RawLongitudes,
            n \in RawLatitudes, e \in RawLongitudes}
    \cup {[JsonLdBase EXCEPT !.spatialCoverage =
              Some([box |-> b, latitude |-> la, longitude |-> lo])] :
            b \in {Nothing, Some(<<"-90", "-180", "90">>)},
            la \in RawLatitudes \cup {None}, lo \in RawLongitudes \cup {None}}
    \cup {[JsonLdBase EXCEPT !.temporalCoverage = t] : t \in RawIntervals}
    \cup {[JsonLdBase EXCEPT !.keywords = [kind |-> "str", str |-> k, list |-> <<>>]] :
            k \in KeywordStrings}
    \cup {[JsonLdBase EXCEPT !.keywords = [kind |-> "list", str |-> "", list |-> k]] :
            k \in SeqsUpTo(KeywordTexts \cup {""}, MaxKeywords)}

ExtractJSONLDFile ==
    /\ extractor.format = "jsonld"
    /\ ~result.done
    /\ result' = extract(extractor, source_file,
                       jsonld_extract(source, extractor.strict_mode))
    /\ UNCHANGED <<extractor, source, source_file>>
    /\ UNCHANGED notExtractVars

(***************************************************************************)
(* RDFExtractor.extract                                                    *)
(***************************************************************************)
\* source.triples is the sequence of (prefix:property, value) matches of
\* property_pattern, in document order; _parse_triples groups them by key
rdf_parse_triples(matches, key) ==
    LET mine == SelectSeq(matches, LAMBDA t : t.key = key)
    IN  [i \in DOMAIN mine |-> mine[i].value]

RECURSIVE rdf_get_first_value(_, _, _)
rdf_get_first_value(matches, property_names, default) ==
    IF property_names = <<>> THEN default
    ELSE LET values == rdf_parse_triples(matches, Head(property_names))
         IN  IF values # <<>> THEN values[1]
             ELSE rdf_get_first_value(matches, Tail(property_names), default)

\* The lists a set can be turned into: list(set(values)) has no defined order
Orderings(S) ==
    {o \in [1..Cardinality(S) -> S] : \A i, j \in 1..Cardinality(S) : o[i] = o[j] => i = j}

rdf_get_all_values_in_order(matches, property_names) ==
    {flatten([i \in DOMAIN property_names |-> rdf_parse_triples(matches, property_names[i])])}

\* _get_all_values: the lists it may return
rdf_get_all_values(matches, property_names) ==
    LET values == flatten([i \in DOMAIN property_names |->
                              rdf_parse_triples(matches, property_names[i])])
    IN  Orderings({values[i] : i \in DOMAIN values})

\* RDFExtractor._parse_datetime: strips, accepts a bare year
rdf_parse_datetime(date_str) ==
    IF date_str = None THEN Nothing ELSE strptime(strip(date_str), TRUE)

rdf_parse_temporal(temporal_str) ==
    IF temporal_str = None THEN <<Nothing, Nothing>>
    ELSE LET parts == split_slash(temporal_str)
         IN  IF Len(parts) > 1
             THEN <<rdf_parse_datetime(parts[1]), rdf_parse_datetime(parts[2])>>
             ELSE <<rdf_parse_datetime(temporal_str), rdf_parse_datetime(temporal_str)>>

\* _transform_to_metadata for one of the keyword lists _get_all_values may give
rdf_transform_to_metadata(matches, keywords) ==
    LET title == rdf_get_first_value(matches,
                     <<"dct:title", "dc:title", "dcterms:title", "schema:name">>,
                     "[Missing title]")
        abstract == rdf_get_first_value(matches,
                     <<"dct:description", "dc:description", "dcterms:description",
                       "schema:description">>, "[Missing description]")
        temporal == rdf_parse_temporal(rdf_get_first_value(matches,
                     <<"dct:temporal", "dc:date", "dct:date", "schema:temporalCoverage">>,
                     None))
        m == Metadata(title, abstract, keywords, Nothing, temporal[1], temporal[2])
    IN  IF Metadata_raises(m) THEN Raise("ValueError") ELSE Ok(m)

rdf_extract(matches, keywords) ==
    LET got == rdf_transform_to_metadata(matches, keywords)
    IN  IF got.raises # None THEN RaisedError("MetadataExtractionError")
        ELSE Returned(got.value)

\* The Turtle documents: up to MaxTriples property-value matches
Triple(key, value) == [key |-> key, value |-> value]
TriplePool ==
    {Triple("dct:title", "X"), Triple("dct:title", " "), Triple("dc:title", " Y "),
     Triple("dct:description", "X"), Triple("dct:description", " "),
     Triple("dcat:keyword", "A"), Triple("dcat:keyword", "B"), Triple("dc:subject", "A")}
    \cup {Triple("dct:temporal", t) : t \in RawIntervals}
RdfDocs == {[format |-> "rdf", triples |-> t] : t \in SeqsUpTo(TriplePool, MaxTriples)}

ExtractRDFFile ==
    /\ extractor.format = "rdf"
    /\ ~result.done
    /\ \E keywords \in rdf_get_all_values(source.triples,
                          <<"dcat:keyword", "dc:subject", "dct:subject", "schema:keywords">>) :
          result' = extract(extractor, source_file,
                            rdf_extract(source.triples, keywords))
    /\ UNCHANGED <<extractor, source, source_file>>
    /\ UNCHANGED notExtractVars

IdleExtractVars ==
    /\ extractor = [format |-> "none", strict_mode |-> FALSE]
    /\ source = [format |-> "none"]
    /\ source_file = FileParsed
    /\ result = NoCall

(***************************************************************************)
(* ExtractorFactory                                                        *)
(***************************************************************************)
\* A dict is the sequence of its items in insertion order
Item(k, v) == [key |-> k, value |-> v]
dict_keys(d) == [i \in DOMAIN d |-> d[i].key]
\* d.get(k): None when the key is absent
dict_get(d, k) ==
    IF \E i \in DOMAIN d : d[i].key = k
    THEN d[CHOOSE i \in DOMAIN d : d[i].key = k].value
    ELSE None

dict_set_appending(d, k, v) == Append(d, Item(k, v))

\* d[k] = v: an existing key keeps its place, a new key goes last
dict_set(d, k, v) ==
    IF \E i \in DOMAIN d : d[i].key = k
    THEN [i \in DOMAIN d |-> IF d[i].key = k THEN Item(k, v) ELSE d[i]]
    ELSE Append(d, Item(k, v))

\* The paths handed to the factory
Paths == {"a.json", "A.JSON", "a.xml", "a.jsonld", "a.ttl", "a.turtle", "a.csv",
          "b.TSV", "a.dat", "README", ".json"}

\* os.path.splitext(p)[1] on the lower-cased paths: a leading dot starts no
\* extension
splitext(p) ==
    CASE p = "a.json" -> ".json" [] p = "a.xml" -> ".xml" [] p = "a.jsonld" -> ".jsonld"
      [] p = "a.ttl" -> ".ttl" [] p = "a.turtle" -> ".turtle" [] p = "a.csv" -> ".csv"
      [] p = "b.tsv" -> ".tsv" [] p = "a.dat" -> ".dat"
      [] OTHER -> ""

\* p.endswith(suffix) on the lower-cased paths and the suffixes ".xxx"
endswith(p, suffix) == IF p = ".json" THEN suffix = ".json" ELSE splitext(p) = suffix

\* can_extract of the four extractors and of two classes registered at run
\* time (one for .csv and .tsv, one that also accepts .json)
ExtractorClasses == {"JSONExtractor", "XMLExtractor", "JSONLDExtractor", "RDFExtractor",
                     "CSVExtractor", "GreedyExtractor"}
can_extract(class, source_path) ==
    LET lower_path == lower(source_path)
    IN  CASE class = "JSONExtractor" -> endswith(lower_path, ".json")
          [] class = "XMLExtractor" -> endswith(lower_path, ".xml")
          [] class = "JSONLDExtractor" -> endswith(lower_path, ".jsonld")
          [] class = "RDFExtractor" ->
                endswith(lower_path, ".ttl") \/ endswith(lower_path, ".turtle")
          [] class = "CSVExtractor" ->
                endswith(lower_path, ".csv") \/ endswith(lower_path, ".tsv")
          [] class = "GreedyExtractor" ->
                endswith(lower_path, ".json") \/ endswith(lower_path, ".csv")

\* extractor_class(strict_mode=self.strict_mode)
Instance(class, strict_mode) == [class |-> class, strict_mode |-> strict_mode]

\* What a factory call gives its caller
FactoryReturned(v) ==
    [raised |-> None, value |-> Some(v), file_path |-> None, supported_formats |-> <<>>]
FactoryNone ==
    [raised |-> None, value |-> Nothing, file_path |-> None, supported_formats |-> <<>>]
UnsupportedFormatError(file_path, supported_formats) ==
    [raised |-> "UnsupportedFormatError", value |-> Nothing, file_path |-> file_path,
     supported_formats |-> supported_formats]

\* f"format:{format_type}"
format_label(format_type) ==
    CASE format_type = "yaml" -> "format:yaml" [] format_type = "csv" -> "format:csv"
      [] format_type = "json" -> "format:json" [] format_type = "rdf" -> "format:rdf"

create_extractor_by_format(registry, strict_mode, format_type) ==
    LET extractor_class == dict_get(registry, lower(format_type))
    IN  IF extractor_class = None
        THEN UnsupportedFormatError(format_label(lower(format_type)), dict_keys(registry))
        ELSE FactoryReturned(Instance(extractor_class, strict_mode))

create_extractor_case_sensitive(registry, ext_map, strict_mode, file_path) ==
    LET format_type == dict_get(ext_map, splitext(file_path))
    IN  IF format_type = None
        THEN UnsupportedFormatError(file_path, dict_keys(ext_map))
        ELSE create_extractor_by_format(registry, strict_mode, format_type)

create_extractor(registry, ext_map, strict_mode, file_path) ==
    LET ext == splitext(lower(file_path))
        format_type == dict_get(ext_map, ext)
    IN  IF format_type = None
        THEN UnsupportedFormatError(file_path, dict_keys(ext_map))
        ELSE create_extractor_by_format(registry, strict_mode, format_type)

get_extractor_for_file_last_match(registry, strict_mode, file_path) ==
    LET hits == SelectSeq(registry, LAMBDA item : can_extract(item.value, file_path))
    IN  IF hits = <<>> THEN FactoryNone
        ELSE FactoryReturned(Instance(hits[Len(hits)].value, strict_mode))

get_extractor_for_file(registry, strict_mode, file_path) ==
    LET hits == SelectSeq(registry, LAMBDA item : can_extract(item.value, file_path))
    IN  IF hits = <<>> THEN FactoryNone
        ELSE FactoryReturned(Instance(hits[1].value, strict_mode))

\* The loop of register_extractor over extensions
RECURSIVE register_extensions(_, _, _)
register_extensions(ext_map, extensions, format_type) ==
    IF extensions = <<>> THEN ext_map
    ELSE LET given == Head(extensions)
             ext == IF given \in {"CSV"} THEN ".CSV" ELSE given
         IN  register_extensions(dict_set(ext_map, lower(ext), lower(format_type)),
                                 Tail(extensions), format_type)

\* The arguments of the register_extractor calls
RegFormats == {"csv", "CSV", "json"}
RegClasses == {"CSVExtractor", "GreedyExtractor"}
RegExtensions == {<<>>, <<".csv">>, <<"CSV", ".tsv">>, <<".json">>}

Call(op, args, given) ==
    [op |-> op, args |-> args, extractors |-> extractors,
     extension_map |-> extension_map, result |-> given]
NoArgs == [file_path |-> None, format_type |-> None, extractor_class |-> None,
           extensions |-> <<>>]

RegisterExtractor ==
    /\ \E format_type \in RegFormats, extractor_class \in RegClasses,
          extensions \in RegExtensions :
          /\ extractors' = dict_set(extractors, lower(format_type), extractor_class)
          /\ extension_map' = register_extensions(extension_map, extensions, format_type)
          /\ registered' = IF \E i \in DOMAIN registered : registered[i] = lower(format_type)
                           THEN registered
                           ELSE Append(registered, lower(format_type))
          /\ last_call' = Call("register_extractor",
                          [NoArgs EXCEPT !.format_type = format_type,
                                         !.extractor_class = extractor_class,
                                         !.extensions = extensions], FactoryNone)
    /\ UNCHANGED factory_strict_mode
    /\ UNCHANGED notFactoryVars

CreateExtractor ==
    /\ \E file_path \in Paths :
          last_call' = Call("create_extractor", [NoArgs EXCEPT !.file_path = file_path],
                       create_extractor(extractors, extension_map, factory_strict_mode,
                                        file_path))
    /\ UNCHANGED <<factory_strict_mode, extractors, extension_map, registered>>
    /\ UNCHANGED notFactoryVars

CreateExtractorByFormat ==
    /\ \E format_type \in RegFormats \cup {"rdf", "yaml"} :
          last_call' = Call("create_extractor_by_format",
                       [NoArgs EXCEPT !.format_type = format_type],
                       create_extractor_by_format(extractors, factory_strict_mode,
                                                  format_type))
    /\ UNCHANGED <<factory_strict_mode, extractors, extension_map, registered>>
    /\ UNCHANGED notFactoryVars

GetExtractorForFile ==
    /\ \E file_path \in Paths :
          last_call' = Call("get_extractor_for_file", [NoArgs EXCEPT !.file_path = file_path],
                       get_extractor_for_file(extractors, factory_strict_mode, file_path))
    /\ UNCHANGED <<factory_strict_mode, extractors, extension_map, registered>>
    /\ UNCHANGED notFactoryVars

\* ExtractorFactory.__init__
DefaultExtractors ==
    <<Item("json", "JSONExtractor"), Item("xml", "XMLExtractor"),
      Item("jsonld", "JSONLDExtractor"), Item("rdf", "RDFExtractor")>>
DefaultExtensionMap ==
    <<Item(".json", "json"), Item(".xml", "xml"), Item(".jsonld", "jsonld"),
      Item(".ttl", "rdf"), Item(".turtle", "rdf")>>
NoFactoryCall ==
    [op |-> "none", args |-> NoArgs, extractors |-> DefaultExtractors,
     extension_map |-> DefaultExtensionMap, result |-> FactoryNone]

InitFactoryVars ==
    /\ factory_strict_mode \in BOOLEAN
    /\ extractors = DefaultExtractors
    /\ extension_map = DefaultExtensionMap
    /\ registered = dict_keys(DefaultExtractors)
    /\ last_call = NoFactoryCall

IdleFactoryVars ==
    /\ factory_strict_mode = FALSE
    /\ extractors = DefaultExtractors
    /\ extension_map = DefaultExtensionMap
    /\ registered = dict_keys(DefaultExtractors)
    /\ last_call = NoFactoryCall

(***************************************************************************)
(* JSONExtractor.extract_resources                                         *)
(***************************************************************************)
R_ZIP      == "https://h/data/a.zip"
R_STORE    == "https://h/datastore/a"
R_STOREZIP == "https://h/datastore/a.zip"
R_DIR      == "https://h/dir/"
R_API      == "https://h/api/a"
R_APIDIR   == "https://h/api/"
R_QUERY    == "https://h/a?format=json"
R_JSONFILE == "https://h/data/a.json"
R_CSV      == "https://h/data/a.csv"
R_PAGE     == "https://h/page"
R_HOST     == "https://host.org"
ResourceUrls == {R_ZIP, R_STORE, R_STOREZIP, R_DIR, R_API, R_APIDIR, R_QUERY,
                 R_JSONFILE, R_CSV, R_PAGE, R_HOST}

\* url.endswith('.zip')
url_endswith_zip(url) == url \in {R_ZIP, R_STOREZIP}
\* url.endswith('/')
url_endswith_slash(url) == url \in {R_DIR, R_APIDIR}
\* '/datastore/' in url
url_in_datastore(url) == url \in {R_STORE, R_STOREZIP}
\* '/api/' in url
url_in_api(url) == url \in {R_API, R_APIDIR}
\* 'json' in url
url_has_json(url) == url \in {R_QUERY, R_JSONFILE}
\* url.split('/')[-1]
url_last_segment(url) ==
    CASE url = R_ZIP      -> "a.zip"
      [] url = R_STORE    -> "a"
      [] url = R_STOREZIP -> "a.zip"
      [] url = R_DIR      -> ""
      [] url = R_API      -> "a"
      [] url = R_APIDIR   -> ""
      [] url = R_QUERY    -> "a?format=json"
      [] url = R_JSONFILE -> "a.json"
      [] url = R_CSV      -> "a.csv"
      [] url = R_PAGE     -> "page"
      [] url = R_HOST     -> "host.org"
      [] OTHER            -> url
\* '.' in s
has_dot(s) == s \in {"a.zip", "a.json", "a.csv", "host.org"}

\* An entry of onlineResources: an object with its url and function keys
\* (None for an absent key), or a bare string, which has no .get
ResDict(url, func) == [is_dict |-> TRUE, url |-> url, function |-> func]
ResString == [is_dict |-> FALSE, url |-> None, function |-> None]

\* The instance appended for one entry: its class and url
Resource(class, url) == [class |-> class, url |-> url]

\* The if / elif chain of the loop body: the class chosen for an entry with a
\* url, "" when nothing is appended
resource_class_zip_only(res) ==
    IF url_endswith_zip(res.url) THEN "RemoteFileResource"
    ELSE IF url_in_datastore(res.url) \/ url_endswith_slash(res.url)
         THEN "WebFolderResource"
    ELSE IF url_in_api(res.url) \/ url_has_json(res.url) THEN "APIDataResource"
    ELSE IF has_dot(url_last_segment(res.url)) THEN "RemoteFileResource"
    ELSE ""

resource_class(res) ==
    IF url_endswith_zip(res.url) \/ res.function = "download" THEN "RemoteFileResource"
    ELSE IF url_in_datastore(res.url) \/ url_endswith_slash(res.url)
         THEN "WebFolderResource"
    ELSE IF url_in_api(res.url) \/ url_has_json(res.url) THEN "APIDataResource"
    ELSE IF has_dot(url_last_segment(res.url)) THEN "RemoteFileResource"
    ELSE ""

\* for res in online_resources: ... ; an entry without .get raises, which
\* ends the loop with the resources appended so far
RECURSIVE resources_loop_raising(_, _)
resources_loop_raising(online_resources, resources) ==
    IF online_resources = <<>> THEN Returned(resources)
    ELSE LET res == Head(online_resources)
         IN  IF ~res.is_dict THEN RaisedError("AttributeError")
             ELSE IF ~truthy(res.url)
                  THEN resources_loop_raising(Tail(online_resources), resources)
             ELSE LET class == resource_class(res)
                  IN  resources_loop_raising(Tail(online_resources),
                          IF class = "" THEN resources
                          ELSE Append(resources, Resource(class, res.url)))

RECURSIVE resources_loop(_, _)
resources_loop(online_resources, resources) ==
    IF online_resources = <<>> THEN Returned(resources)
    ELSE LET res == Head(online_resources)
         IN  IF ~res.is_dict THEN Returned(resources)
             ELSE IF ~truthy(res.url)
                  THEN resources_loop(Tail(online_resources), resources)
             ELSE LET class == resource_class(res)
                  IN  resources_loop(Tail(online_resources),
                          IF class = "" THEN resources
                          ELSE Append(resources, Resource(class, res.url)))

\* extract_resources(source_path).  file.content is what open / json.load
\* meet; file.onlineResources is the value of the key ("absent", "null" or
\* "list" with its items); file.downloadUrl is None when the key is absent.
extract_resources(file) ==
    IF file.content # "object"
    THEN \* open or json.load raised, or data has no .get: caught, resources = []
         Returned(<<>>)
    ELSE IF file.onlineResources.given = "null"
    THEN \* None.append(...) or iterating None raises: caught
         Returned(<<>>)
    ELSE LET listed == file.onlineResources.items
             online_resources ==
                 IF listed = <<>> /\ file.downloadUrl # None
                 THEN <<ResDict(file.downloadUrl, "download")>>
                 ELSE listed
         IN  resources_loop(online_resources, <<>>)

\* The files given to extract_resources
ResourceEntries ==
    {ResDict(u, f) : u \in ResourceUrls, f \in {None, "information"}}
    \cup {ResDict(R_PAGE, "download"), ResDict(R_DIR, "download"),
          ResDict("", "download"), ResDict(None, None), ResString}
OnlineResources ==
    {[given |-> "absent", items |-> <<>>], [given |-> "null", items |-> <<>>]}
    \cup {[given |-> "list", items |-> l] : l \in SeqsUpTo(ResourceEntries, MaxResources)}
ResourceFiles ==
    [content : {"object"}, onlineResources : OnlineResources,
     downloadUrl : {None, "", R_PAGE}]
    \cup [content : {"missing", "unreadable", "malformed", "array"},
          onlineResources : {[given |-> "absent", items |-> <<>>]},
          downloadUrl : {None}]

ExtractResources ==
    /\ ~returned_resources.done
    /\ returned_resources' = extract_resources(resource_file)
    /\ UNCHANGED resource_file
    /\ UNCHANGED notResourceVars

IdleResourceVars ==
    /\ resource_file = [content |-> "none"]
    /\ returned_resources = NoCall

(***************************************************************************)
(* extract called again on an unchanged file: metadata_date                *)
(***************************************************************************)
\* JSONExtractor._transform_to_metadata: metadata_date / metadataDate, or
\* datetime.utcnow() (now) when neither parses
json_extract_metadata_date(data, now) ==
    LET given == IF truthy(data.metadata_date) THEN data.metadata_date
                 ELSE data.metadataDate
        metadata_date == json_parse_datetime(given)
    IN  IF metadata_date = Nothing THEN now ELSE metadata_date[1]

\* XMLExtractor._extract_metadata_date: gmd:dateStamp/gco:DateTime, then
\* gco:Date, or datetime.utcnow()
xml_extract_metadata_date(root, now) ==
    LET date_str == xml_extract_text(<<root.DateTime, root.Date>>)
        parsed_date == xml_parse_datetime(date_str)
    IN  IF truthy(date_str) /\ parsed_date # Nothing THEN parsed_date[1] ELSE now

\* The Metadata of one extract call: the fields computed from the document
\* alone, and metadata_date
extract_dated(ext, file, now) ==
    IF ext.format = "json"
    THEN [fields |-> json_extract(JsonBase, ext.strict_mode),
          metadata_date |-> json_extract_metadata_date(file, now)]
    ELSE [fields |-> xml_extract(XmlBase, ext.strict_mode),
          metadata_date |-> xml_extract_metadata_date(file, now)]

\* The date stamps of the files
DateStamps == {None, "2020-01-01", "2020", "not-a-date"}
DatedFiles ==
    [format : {"json"}, metadata_date : DateStamps, metadataDate : DateStamps]
    \cup [format : {"xml"}, DateTime : DateStamps, Date : DateStamps]

\* Time passes between two calls, or does not; the clock reads a day after
\* every date stamp, as a yyyymmdd number
Tick ==
    /\ utcnow < 20250101 + MaxTicks
    /\ utcnow' = utcnow + 1
    /\ UNCHANGED <<dated_extractor, dated_file, extracted>>
    /\ UNCHANGED notRepeatVars

\* extractor.extract(source_path), on the same instance and file
ExtractAgain ==
    /\ Len(extracted) < 2
    /\ extracted' = Append(extracted, extract_dated(dated_extractor, dated_file, utcnow))
    /\ UNCHANGED <<dated_extractor, dated_file, utcnow>>
    /\ UNCHANGED notRepeatVars

IdleRepeatVars ==
    /\ dated_extractor = [format |-> "none", strict_mode |-> FALSE]
    /\ dated_file = [format |-> "none"]
    /\ utcnow = 20250101
    /\ extracted = <<>>

(***************************************************************************)
(* One dataset in a JSON and in an XML file, each given to its extractor   *)
(***************************************************************************)
\* A dataset: its texts (None when it has none), keywords and coordinates
DatasetBase ==
    [title |-> "X", abstract |-> "X", keywords |-> <<>>, bounding_box |-> Nothing]
Datasets ==
    {[DatasetBase EXCEPT !.title = t, !.abstract = a] :
        t \in SourceTexts, a \in SourceTexts}
    \cup {[DatasetBase EXCEPT !.keywords = k] :
            k \in SeqsUpTo(KeywordTexts \cup {" Y "}, MaxKeywords)}
    \cup {[DatasetBase EXCEPT !.bounding_box = Some(b)] :
            b \in [west : RawLongitudes, east : RawLongitudes,
                   south : RawLatitudes, north : RawLatitudes]}

\* The JSON file of a dataset: title, abstract, keywords, bounding_box keys
json_representation(d) ==
    [JsonBase EXCEPT !.title = d.title, !.abstract = d.abstract,
                     !.keywords = d.keywords, !.bounding_box = d.bounding_box]

\* The ISO 19139 file of a dataset: gco:CharacterString elements for title,
\* abstract and each keyword, gco:Decimal elements for the coordinates
xml_representation(d) ==
    [XmlBase EXCEPT !.title = [CharacterString |-> d.title, Anchor |-> None],
                    !.abstract = d.abstract,
                    !.keywords = [i \in DOMAIN d.keywords |->
                                     [tag |-> "CharacterString", text |-> d.keywords[i]]],
                    !.bounding_box = d.bounding_box]

ExtractJSONRepresentation ==
    /\ ~json_metadata.done
    /\ json_metadata' = json_extract(json_representation(dataset), pair_strict_mode)
    /\ UNCHANGED <<dataset, pair_strict_mode, xml_metadata>>
    /\ UNCHANGED notPairVars

ExtractXMLRepresentation ==
    /\ ~xml_metadata.done
    /\ xml_metadata' = xml_extract(xml_representation(dataset), pair_strict_mode)
    /\ UNCHANGED <<dataset, pair_strict_mode, json_metadata>>
    /\ UNCHANGED notPairVars

IdlePairVars ==
    /\ dataset = DatasetBase
    /\ pair_strict_mode = FALSE
    /\ json_metadata = NoCall
    /\ xml_metadata = NoCall

(***************************************************************************)
(* Metadata.add_keywords                                                   *)
(***************************************************************************)
\* The strings given to add_keywords
AddedKeywords == KeywordTexts \cup Texts \cup {"Y"}

\* for keyword in keywords: if keyword and keyword.strip() and keyword not
\* in self.keywords: self.keywords.append(keyword.strip())
RECURSIVE add_keywords(_, _)
add_keywords(self_keywords, keywords) ==
    IF keywords = <<>> THEN self_keywords
    ELSE LET keyword == Head(keywords)
             wanted == /\ truthy(keyword) /\ truthy(strip(keyword))
                       /\ ~\E i \in DOMAIN self_keywords : self_keywords[i] = keyword
         IN  add_keywords(IF wanted THEN Append(self_keywords, strip(keyword))
                          ELSE self_keywords,
                          Tail(keywords))

\* metadata.add_keywords(*keywords)
AddKeywords ==
    /\ Len(metadata_keywords) <= MaxKeywords
    /\ \E keywords \in SeqsUpTo(AddedKeywords, MaxKeywords) :
          /\ keywords # <<>>
          /\ metadata_keywords' = add_keywords(metadata_keywords, keywords)
          /\ keywords_before' = metadata_keywords
    /\ UNCHANGED notKeywordVars

IdleKeywordVars ==
    /\ metadata_keywords = <<>>
    /\ keywords_before = <<>>

(***************************************************************************)
(* BatchETLRunner.run and its worker threads                               *)
(***************************************************************************)
\* The non-comment lines of the input file
InputLines == {"u1", "u_2", "u/2"}

\* BatchProgress(total=total, ...) with fresh counters
BatchProgress(total) ==
    [total |-> total, processed |-> 0, successful |-> 0, failed |-> 0,
     completed_uuids |-> {}, failed_uuids |-> {}]

\* load_progress: the checkpoint when the file exists, else a new record
load_progress(file) == IF file # Nothing THEN file[1] ELSE BatchProgress(0)

\* uuids_to_process: the lines whose uuid is not in completed_uuids
uuids_to_process(uuids, p) ==
    SelectSeq(uuids, LAMBDA u : u \notin p.completed_uuids)

\* A submitted future: its uuid, how far its worker is, and the success
\* field of its ProcessingResult once it has one
Future(u, phase, success) == [uuid |-> u, phase |-> phase, success |-> success]

\* uuid.replace('/', '_').replace('\\', '_')
safe_uuid(u) == IF u = "u/2" THEN "u_2" ELSE u

\* _create_temp_file(uuid, format_type): the file name under temp_dir
create_temp_file(u, format_type) == <<"metadata_", safe_uuid(u), format_type>>

\* The body of the as_completed loop for one result that forgets a failure,
\* and the body as it is: the counters and the two collections
record_result_without_failed_uuids(p, u, success) ==
    IF success
    THEN [p EXCEPT !.processed = @ + 1, !.successful = @ + 1,
                   !.completed_uuids = @ \cup {u}]
    ELSE [p EXCEPT !.processed = @ + 1, !.failed = @ + 1]

record_result(p, u, success) ==
    IF success
    THEN [p EXCEPT !.processed = @ + 1, !.successful = @ + 1,
                   !.completed_uuids = @ \cup {u}]
    ELSE [p EXCEPT !.processed = @ + 1, !.failed = @ + 1,
                   !.failed_uuids = @ \cup {u}]

\* run(input_file, progress_file) up to the end of the submission loop
StartRun ==
    /\ run_pc = "idle"
    /\ runs < MaxRuns
    /\ LET loaded == IF resume THEN [load_progress(progress_file)
                                        EXCEPT !.total = Len(all_uuids)]
                     ELSE BatchProgress(Len(all_uuids))
           todo == uuids_to_process(all_uuids, loaded)
       IN  /\ progress' = loaded
           /\ futures' = [i \in DOMAIN todo |-> Future(todo[i], "pending", FALSE)]
    /\ run_pc' = "running"
    /\ UNCHANGED <<all_uuids, resume, progress_file, runs>>
    /\ UNCHANGED notBatchVars

in_flight(f) == f.phase \in {"fetch", "extract"}

\* A free worker thread takes the oldest queued call of process_single_uuid
WorkerStart(i) ==
    /\ run_pc = "running"
    /\ futures[i].phase = "pending"
    /\ \A j \in 1..(i - 1) : futures[j].phase # "pending"
    /\ Cardinality({j \in DOMAIN futures : in_flight(futures[j])}) < MaxWorkers
    /\ futures' = [futures EXCEPT ![i].phase = "fetch"]
    /\ UNCHANGED <<all_uuids, resume, progress, progress_file, run_pc, runs>>
    /\ UNCHANGED notBatchVars

\* fetcher.fetch(uuid) returns the downloaded file or raises FetchError
WorkerFetched(i) ==
    /\ run_pc = "running"
    /\ futures[i].phase = "fetch"
    /\ \/ futures' = [futures EXCEPT ![i].phase = "extract"]
       \/ futures' = [futures EXCEPT ![i].phase = "done", ![i].success = FALSE]
    /\ UNCHANGED <<all_uuids, resume, progress, progress_file, run_pc, runs>>
    /\ UNCHANGED notBatchVars

\* create_extractor, extract, repository.save and the embedding succeed, or
\* one of them raises; every except clause returns success=False
WorkerExtracted(i) ==
    /\ run_pc = "running"
    /\ futures[i].phase = "extract"
    /\ \E success \in BOOLEAN :
          futures' = [futures EXCEPT ![i].phase = "done", ![i].success = success]
    /\ UNCHANGED <<all_uuids, resume, progress, progress_file, run_pc, runs>>
    /\ UNCHANGED notBatchVars

\* One round of "for future in as_completed(future_to_uuid)"
CollectResult(i) ==
    /\ run_pc = "running"
    /\ futures[i].phase = "done"
    /\ futures' = [futures EXCEPT ![i].phase = "recorded"]
    /\ progress' = record_result(progress, futures[i].uuid, futures[i].success)
    /\ progress_file' = IF progress'.processed % 10 = 0 THEN Some(progress')
                        ELSE progress_file
    /\ UNCHANGED <<all_uuids, resume, run_pc, runs>>
    /\ UNCHANGED notBatchVars

\* The loop is over: save_progress and return progress
FinishRun ==
    /\ run_pc = "running"
    /\ \A i \in DOMAIN futures : futures[i].phase = "recorded"
    /\ progress_file' = Some(progress)
    /\ run_pc' = "idle"
    /\ runs' = runs + 1
    /\ UNCHANGED <<all_uuids, resume, progress, futures>>
    /\ UNCHANGED notBatchVars

IdleBatchVars ==
    /\ all_uuids = <<>>
    /\ resume = TRUE
    /\ progress = BatchProgress(0)
    /\ progress_file = Nothing
    /\ futures = <<>>
    /\ run_pc = "off"
    /\ runs = 0

(***************************************************************************)
(* Specifications                                                          *)
(***************************************************************************)
InitDist ==
    /\ IdleFetchVars /\ IdleBoxVars /\ IdleExtractVars /\ IdleFactoryVars
    /\ IdleResourceVars /\ IdleRepeatVars /\ IdlePairVars /\ IdleKeywordVars
    /\ IdleBatchVars
    /\ doc \in Docs /\ dist = NoDist
NextDist == ExtractJSON \/ ExtractXML
SpecDist == InitDist /\ [][NextDist]_vars

InitFetch ==
    /\ InitFetchVars /\ IdleDistVars /\ IdleBoxVars /\ IdleExtractVars
    /\ IdleFactoryVars /\ IdleResourceVars /\ IdleRepeatVars /\ IdlePairVars
    /\ IdleKeywordVars /\ IdleBatchVars
NextFetch == Fetch \/ TryCandidate \/ DownloadAttempt \/ RaiseFetchError
SpecFetch == InitFetch /\ [][NextFetch]_vars

InitBox ==
    /\ IdleFetchVars /\ IdleDistVars /\ IdleExtractVars /\ IdleFactoryVars
    /\ IdleResourceVars /\ IdleRepeatVars /\ IdlePairVars /\ IdleKeywordVars
    /\ IdleBatchVars
    /\ coords \in [west : Longitudes, east : Longitudes,
                    south : Latitudes, north : Latitudes]
    /\ box = NoCall
NextBox == ConstructBoundingBox
SpecBox == InitBox /\ [][NextBox]_vars

\* An extractor of either mode is given a document of its own format; the
\* files that fail before any field is read are tried with one document
InitExtract ==
    /\ IdleFetchVars /\ IdleDistVars /\ IdleBoxVars /\ IdleFactoryVars
    /\ IdleResourceVars /\ IdleRepeatVars /\ IdlePairVars /\ IdleKeywordVars
    /\ IdleBatchVars
    /\ source \in JsonDocs \cup XmlDocs \cup JsonLdDocs \cup RdfDocs
    /\ extractor \in [format : {source.format}, strict_mode : BOOLEAN]
    /\ source_file \in IF source \in {JsonBase, XmlBase, JsonLdBase,
                                       [format |-> "rdf", triples |-> <<>>]}
                        THEN SourceFiles(source.format) ELSE {FileParsed}
    /\ result = NoCall
NextExtract == ExtractJSONFile \/ ExtractXMLFile \/ ExtractJSONLDFile \/ ExtractRDFFile
SpecExtract == InitExtract /\ [][NextExtract]_vars

InitFactory ==
    /\ IdleFetchVars /\ IdleDistVars /\ IdleBoxVars /\ IdleExtractVars
    /\ IdleResourceVars /\ IdleRepeatVars /\ IdlePairVars /\ IdleKeywordVars
    /\ IdleBatchVars
    /\ InitFactoryVars
NextFactory ==
    RegisterExtractor \/ CreateExtractor \/ CreateExtractorByFormat \/ GetExtractorForFile
SpecFactory == InitFactory /\ [][NextFactory]_vars

InitResources ==
    /\ IdleFetchVars /\ IdleDistVars /\ IdleBoxVars /\ IdleExtractVars
    /\ IdleFactoryVars /\ IdleRepeatVars /\ IdlePairVars /\ IdleKeywordVars
    /\ IdleBatchVars
    /\ resource_file \in ResourceFiles
    /\ returned_resources = NoCall
NextResources == ExtractResources
SpecResources == InitResources /\ [][NextResources]_vars

InitRepeat ==
    /\ IdleFetchVars /\ IdleDistVars /\ IdleBoxVars /\ IdleExtractVars
    /\ IdleFactoryVars /\ IdleResourceVars /\ IdlePairVars
    /\ IdleKeywordVars /\ IdleBatchVars
    /\ dated_file \in DatedFiles
    /\ dated_extractor \in [format : {dated_file.format}, strict_mode : BOOLEAN]
    /\ utcnow = 20250101
    /\ extracted = <<>>
NextRepeat == ExtractAgain \/ Tick
SpecRepeat == InitRepeat /\ [][NextRepeat]_vars

InitPair ==
    /\ IdleFetchVars /\ IdleDistVars /\ IdleBoxVars /\ IdleExtractVars
    /\ IdleFactoryVars /\ IdleResourceVars /\ IdleRepeatVars
    /\ IdleKeywordVars /\ IdleBatchVars
    /\ dataset \in Datasets
    /\ pair_strict_mode \in BOOLEAN
    /\ json_metadata = NoCall
    /\ xml_metadata = NoCall
NextPair == ExtractJSONRepresentation \/ ExtractXMLRepresentation
SpecPair == InitPair /\ [][NextPair]_vars

\* A Metadata whose keywords are stripped and without duplicates
InitKeywords ==
    /\ IdleFetchVars /\ IdleDistVars /\ IdleBoxVars /\ IdleExtractVars
    /\ IdleFactoryVars /\ IdleResourceVars /\ IdleRepeatVars /\ IdlePairVars
    /\ IdleBatchVars
    /\ metadata_keywords \in {k \in SeqsUpTo(KeywordTexts \cup {"Y"}, MaxKeywords) :
                                 \A i, j \in DOMAIN k : i # j => k[i] # k[j]}
    /\ keywords_before = metadata_keywords
NextKeywords == AddKeywords
SpecKeywords == InitKeywords /\ [][NextKeywords]_vars

\* A runner, an input file and no checkpoint file yet
InitBatch ==
    /\ IdleFetchVars /\ IdleDistVars /\ IdleBoxVars /\ IdleExtractVars
    /\ IdleFactoryVars /\ IdleResourceVars /\ IdleRepeatVars /\ IdlePairVars
    /\ IdleKeywordVars
    /\ all_uuids \in SeqsUpTo(InputLines, MaxLines)
    /\ resume \in BOOLEAN
    /\ progress = BatchProgress(0)
    /\ progress_file = Nothing
    /\ futures = <<>>
    /\ run_pc = "idle"
    /\ runs = 0
NextBatch ==
    \/ StartRun
    \/ \E i \in DOMAIN futures :
          WorkerStart(i) \/ WorkerFetched(i) \/ WorkerExtracted(i) \/ CollectResult(i)
    \/ FinishRun
SpecBatch == InitBatch /\ [][NextBatch]_vars

\* The pool threads and the main thread of a run keep running: whatever a
\* worker or the result loop can do next is done in the end.  Starting
\* another run is left to the caller.
SpecBatchFair ==
    /\ SpecBatch
    /\ WF_vars(\E i \in DOMAIN futures :
                  WorkerStart(i) \/ WorkerFetched(i) \/ WorkerExtracted(i)
                  \/ CollectResult(i))
    /\ WF_vars(FinishRun)

(***************************************************************************)
(* Claims about MetadataFetcher.fetch and HTTPClient.download_file,        *)
(* checked under SpecFetch                                                 *)
(***************************************************************************)
IsBase(w, fmt) == w.url.key = "base_url" /\ w.format_type = fmt

C1_StateInv ==
    LET n == Len(wire) IN
    \* attempts follow the candidate list, none skipped, none out of order
    /\ n > 0 => wire[1].cand = 1
    /\ \A i \in 1..(n - 1) : wire[i + 1].cand \in {wire[i].cand, wire[i].cand + 1}
    \* the preferred format first, otherwise JSON before XML
    /\ (n > 0 /\ preferred_format \in Formats) => wire[1].format_type = preferred_format
    /\ (n > 0 /\ preferred_format = "none") => wire[1].format_type = "json"
    /\ \A i, j \in 1..n : (IsBase(wire[i], "json") /\ IsBase(wire[j], "xml")) => i < j
    \* the archive URL after the base-URL candidates
    /\ \A i, j \in 1..n :
          (wire[i].url.key = "gemini_xml_url" /\ wire[j].url.key = "base_url") => j < i
    \* preferredFormat json on the content-negotiation catalogue
    /\ (n > 0 /\ preferred_format = "json" /\ catalogue = "ceh")
          => wire[1].accept = "application/json"
    \* the accepted candidate is the last one attempted
    /\ outcome.kind = "returned" => (n > 0 /\ wire[n].cand = outcome.cand)

\* C1: fetch issues its HTTP attempts in candidate-list order (preferred format
\* first, otherwise JSON before XML, the archive URL after the base-URL
\* candidates; Accept: application/json first for preferredFormat json on the
\* content-negotiation catalogue), and once a candidate is returned no
\* further attempt is made.
C1_AttemptsInCandidateOrder ==
    /\ []C1_StateInv
    /\ [][outcome.kind # "none" => wire' = wire]_vars

C1_Witness ==
    /\ outcome.kind = "returned"
    /\ outcome.cand = 2
    /\ catalogue = "ceh"
    /\ preferred_format = "json"
    /\ wire[1].accept = "application/json"
    /\ Len(wire) = 2

\* C2: fetch never returns an HTML response (Content-Type text/html) as its
\* JSON or XML result; such a candidate counts as failed.
C2_NeverReturnsHtml ==
    outcome.kind = "returned" => outcome.content_type # "text/html"

\* The content sanity check of the specification: non-empty, and the first
\* non-whitespace byte is one of { [ <
SaneContent(body) ==
    /\ Len(body) > 0
    /\ \E i \in 1..Len(body) :
          /\ body[i] \in {"{", "[", "<"}
          /\ \A j \in 1..(i - 1) : body[j] \in Whitespace

\* C3: every file fetch returns is non-empty and its first non-whitespace
\* byte is one of { [ <
C3_ReturnedFileIsSane ==
    outcome.kind = "returned" => SaneContent(outcome.body)

\* C4: a connection error or timeout of the transport is re-attempted, so a
\* DownloadError caused by one is surfaced only after StopAfterAttempt
\* attempts of the same request.
C4_TransportFailureIsRetried ==
    \A i \in DOMAIN tried :
        tried[i].cause \in {"ConnectionError", "Timeout"}
            => tried[i].attempts = StopAfterAttempt

Raised == {i \in DOMAIN tried : tried[i].result = "raised"}
LastRaised == CHOOSE i \in Raised : \A j \in Raised : j <= i

\* C5: fetch fails only with FetchError, exactly when every candidate has
\* failed; the FetchError carries the requested identifier and the message of
\* the last error raised by a candidate; no other exception escapes.
C5_OnlyFetchError ==
    /\ outcome.kind \in {"none", "returned", "FetchError"}
    /\ outcome.kind = "FetchError" =>
          /\ outcome.uuid = uuid
          /\ Len(tried) = Len(urls_to_try)
          /\ Raised # {} => outcome.reason = str_error(tried[LastRaised].error)
          /\ Raised = {} => outcome.reason = <<"All download attempts failed">>
    /\ outcome.kind = "returned" => Len(tried) < Len(urls_to_try)
    /\ (pc = "done" /\ Len(tried) = Len(urls_to_try)) => outcome.kind = "FetchError"

C5_Witness ==
    /\ outcome.kind = "FetchError"
    /\ Len(tried) = 3
    /\ tried[1].cause = "Timeout"
    /\ tried[2].cause = "HTTPError"
    /\ tried[3].cause = "verify"
    /\ outcome.reason = <<"Failed to download", urls_to_try[2].url, "HTTP error">>

\* C6: on the content-negotiation catalogue the candidate list holds a JSON
\* and an XML candidate on the base URL for every preferredFormat, the
\* preferred format first.
C6_BothFormatsOnBaseUrl ==
    (pc # "idle" /\ catalogue = "ceh") =>
        /\ \E i \in DOMAIN urls_to_try :
              urls_to_try[i] = Cand(Url(catalogue, "base_url", uuid), "json")
        /\ \E i \in DOMAIN urls_to_try :
              urls_to_try[i] = Cand(Url(catalogue, "base_url", uuid), "xml")
        /\ preferred_format \in Formats => urls_to_try[1].format_type = preferred_format

(***************************************************************************)
(* Claims about _extract_distribution_info of the JSON and XML extractors, *)
(* checked under SpecDist.  The claim_* operators state the heuristic as    *)
(* the specification words it.                                              *)
(***************************************************************************)
claim_has_function(r) == lower(r.function) \in {"download", "fileaccess"}
claim_on_storage(r) ==
    contains(r.url, "datastore/eidchub") \/ contains(r.url, "data-package.ceh.ac.uk/data")
claim_score(r) ==
    IF claim_has_function(r) /\ claim_on_storage(r) THEN 3
    ELSE IF claim_on_storage(r) THEN 2
    ELSE IF claim_has_function(r) \/ endswith_zip(r.url) THEN 1
    ELSE 0
claim_supporting(r) ==
    \/ contains(lower(r.name), "support")
    \/ contains(r.url, "support")
    \/ (lower(r.function) = "information" /\ endswith_zip(r.url))
claim_survives(r) == r.url # "" /\ ~claim_supporting(r) /\ claim_score(r) > 0
claim_survivors(d) == SelectSeq(d.resources, claim_survives)
\* the first-seen survivor of maximal score
claim_best(d) ==
    LET s == claim_survivors(d)
        i == CHOOSE i \in DOMAIN s :
                \A j \in DOMAIN s :
                    /\ claim_score(s[j]) <= claim_score(s[i])
                    /\ j < i => claim_score(s[j]) < claim_score(s[i])
    IN  s[i].url

\* C7: downloadUrl is the first-seen candidate of maximal score among the
\* online resources scoring above 0 (records without supporting documentation
\* and without a top-level downloadUrl, so that only the scoring decides).
C7_DownloadUrlIsBestScored ==
    (/\ dist.done
     /\ doc.downloadUrl = ""
     /\ \A i \in DOMAIN doc.resources :
           /\ ~claim_supporting(doc.resources[i])
           /\ ~json_is_supporting_resource(doc.resources[i].url, doc.resources[i].name,
                                           doc.resources[i].function)
     /\ claim_survivors(doc) # <<>>)
    => dist.download_url = claim_best(doc)

\* C8: a resource classified as supporting documentation is never selected
\* as downloadUrl (unless the same URL is also offered by a resource that is
\* not supporting documentation, or by the top-level downloadUrl).
C8_SupportingNeverSelected ==
    dist.done =>
        \A i \in DOMAIN doc.resources :
            LET r == doc.resources[i] IN
            (/\ r.url # ""
             /\ claim_supporting(r)
             /\ doc.downloadUrl # r.url
             /\ \A j \in DOMAIN doc.resources :
                   doc.resources[j].url = r.url => claim_supporting(doc.resources[j]))
            => dist.download_url # r.url

\* C9: accessType is fileAccess exactly when a surviving download candidate
\* carries the fileAccess function code, and download otherwise.
C9_AccessTypeFromSurvivors ==
    dist.done =>
        /\ dist.access_type \in {"fileAccess", "download"}
        /\ dist.access_type = "fileAccess" <=>
              \E i \in DOMAIN doc.resources :
                  /\ claim_survives(doc.resources[i])
                  /\ lower(doc.resources[i].function) = "fileaccess"

\* The landing page of the specification, for a reading p of "the
\* catalogue's document-page pattern"
claim_landing(d, download_url, p) ==
    LET page(r) == /\ r.url # ""
                   /\ ~endswith_zip(r.url)
                   /\ (lower(r.function) = "information" \/ contains(r.url, p))
        first == FirstUrl(SelectSeq(d.info_links \o d.resources, page))
    IN  IF d.uri # "" THEN d.uri
        ELSE IF first # "" THEN first
        ELSE IF download_url # "" /\ ~endswith_zip(download_url) THEN download_url
        ELSE ""

\* C10: landingPageUrl is the top-level URI when present, otherwise the
\* first non-ZIP resource with function information or a document-page URL,
\* otherwise the non-ZIP downloadUrl, otherwise empty (under at least one
\* reading of the document-page pattern).
C10_LandingPageSelection ==
    dist.done =>
        \E p \in {"catalogue.ceh.ac.uk", "documents/", "catalogue.ceh.ac.uk/documents/"} :
            dist.landing_page_url = claim_landing(doc, dist.download_url, p)

\* C11: whenever XML extraction finds no download URL among the online
\* resources (the document may have no online resource at all) and the
\* document carries a file identifier, downloadUrl is the catalogue URL
\* template filled with that identifier.
C11_FallbackFromFileIdentifier ==
    (/\ dist.done
     /\ doc.format = "xml"
     /\ doc.fileIdentifier # ""
     /\ \A i \in DOMAIN doc.resources :
           doc.resources[i].url = "" \/ ~xml_is_download_candidate(doc.resources[i]))
        => dist.download_url = ceh_datastore_url(doc.fileIdentifier)

\* C14: constructing a BoundingBox succeeds exactly when both longitudes are
\* in [-180,180], both latitudes are in [-90,90], west <= east and
\* south <= north; otherwise it fails, and a box that was built carries the
\* coordinates as given (nothing is clamped or adjusted).
C14_BoundingBoxValidation ==
    box.done =>
        LET valid == /\ coords.west >= -180 /\ coords.west <= 180
                     /\ coords.east >= -180 /\ coords.east <= 180
                     /\ coords.south >= -90 /\ coords.south <= 90
                     /\ coords.north >= -90 /\ coords.north <= 90
                     /\ coords.west <= coords.east
                     /\ coords.south <= coords.north
        IN  /\ valid => /\ box.raised = None
                        /\ box.value = Some([west_longitude |-> coords.west,
                                              east_longitude |-> coords.east,
                                              south_latitude |-> coords.south,
                                              north_latitude |-> coords.north])
            /\ ~valid => box.raised = "ValueError" /\ box.value = Nothing

\* An in-range box with west > east was refused
C14_Witness ==
    /\ box.done /\ box.raised = "ValueError"
    /\ coords.west = 180 /\ coords.east = -180
    /\ coords.south = -90 /\ coords.north = 90

(***************************************************************************)
(* Claims about extract (SpecExtract)                                      *)
(***************************************************************************)
claim_no_text(t) == t = None \/ is_blank(t)

\* The mandatory field of the claims is missing or blank in the document
claim_field_missing(src, field) ==
    CASE src.format = "json" ->
            IF field = "title" THEN claim_no_text(src.title)
            ELSE claim_no_text(src.abstract) /\ claim_no_text(src.description)
      [] src.format = "xml" ->
            IF field = "title"
            THEN claim_no_text(src.title.CharacterString) /\ claim_no_text(src.title.Anchor)
            ELSE claim_no_text(src.abstract)
      [] src.format = "jsonld" ->
            IF field = "title"
            THEN claim_no_text(src.name) /\ claim_no_text(src.headline)
            ELSE claim_no_text(src.description)
      [] src.format = "rdf" ->
            LET key == IF field = "title" THEN "dct:title" ELSE "dct:description"
                other == IF field = "title" THEN "dc:title" ELSE "dc:description"
            IN  \A i \in DOMAIN src.triples :
                    src.triples[i].key \in {key, other} => is_blank(src.triples[i].value)

claim_returned == result.done /\ result.raised = None /\ result.value # Nothing
claim_failed == result.done /\ result.raised # None /\ result.value = Nothing

\* C12: JSONExtractor on a document with a title and no abstract returns, in
\* non-strict mode, a Metadata whose abstract is "[Missing abstract]" and
\* raises nothing; in strict mode it fails with MetadataExtractionError and
\* returns no Metadata.
C12_JsonMissingAbstract ==
    (/\ result.done
     /\ source.format = "json"
     /\ ~claim_field_missing(source, "title")
     /\ claim_field_missing(source, "abstract"))
        => IF extractor.strict_mode
           THEN claim_failed /\ result.raised = "MetadataExtractionError"
           ELSE claim_returned /\ result.value[1].abstract = "[Missing abstract]"

\* {"title": "X"} was extracted in non-strict mode
C12_Witness ==
    /\ claim_returned
    /\ source.format = "json" /\ ~extractor.strict_mode
    /\ source.title = "X" /\ source.abstract = None /\ source.description = None
    /\ result.value[1].abstract = "[Missing abstract]"

\* C13: for each of the four extractors and each mandatory field, a missing
\* or blank field gives, in non-strict mode, a Metadata whose field is
\* "[Missing <field>]", and makes extraction fail in strict mode.
C13_PlaceholderOrFailure ==
    result.done =>
        \A field \in {"title", "abstract"} :
            claim_field_missing(source, field) =>
                IF extractor.strict_mode THEN claim_failed
                ELSE claim_returned /\ result.value[1][field] = json_placeholder(field)

\* C15: every Metadata that extract returns has a non-blank title and
\* abstract, a temporal extent with start <= end when both are present, and
\* a bounding box that is absent or within the ranges and ordered.
C15_ReturnedMetadataIsValid ==
    claim_returned =>
        LET m == result.value[1]
            b == m.bounding_box[1]
        IN  /\ ~is_blank(m.title)
            /\ ~is_blank(m.abstract)
            /\ (m.temporal_extent_start # Nothing /\ m.temporal_extent_end # Nothing)
                  => m.temporal_extent_start[1] <= m.temporal_extent_end[1]
            /\ m.bounding_box # Nothing =>
                  /\ b.west_longitude >= -180 /\ b.east_longitude <= 180
                  /\ b.south_latitude >= -90 /\ b.north_latitude <= 90
                  /\ b.west_longitude <= b.east_longitude
                  /\ b.south_latitude <= b.north_latitude

\* A Metadata with a temporal extent of two different dates came back
C15_Witness ==
    /\ claim_returned
    /\ result.value[1].temporal_extent_start # Nothing
    /\ result.value[1].temporal_extent_end # Nothing
    /\ result.value[1].temporal_extent_start # result.value[1].temporal_extent_end

\* The keyword texts of a JSON document in the order of the claim: keywords,
\* then the themed lists, an item giving its string or its value / label
claim_item_text(item) ==
    IF ~item.is_dict THEN item.str
    ELSE IF truthy(item.value) THEN item.value ELSE item.label
claim_json_keywords(src) ==
    LET texts(items) == [i \in DOMAIN items |-> claim_item_text(items[i])]
    IN  SelectSeq(src.keywords \o texts(src.keywordsTheme) \o texts(src.keywordsPlace)
                  \o texts(src.keywordsOther), truthy)

\* k lists every text of all once, ordered by first occurrence in all
claim_first_seen(k, all) ==
    LET first(x) == CHOOSE i \in DOMAIN all :
                        all[i] = x /\ \A j \in DOMAIN all : all[j] = x => i <= j
    IN  /\ {k[i] : i \in DOMAIN k} = {all[i] : i \in DOMAIN all}
        /\ \A i, j \in DOMAIN k : i < j => k[i] # k[j] /\ first(k[i]) < first(k[j])

\* C16: JSONExtractor's keywords are the lists keywords, keywordsTheme,
\* keywordsPlace, keywordsOther concatenated in that order (a themed item
\* being a bare string or an object's value / label), later duplicates
\* removed, first-seen order kept.
C16_JsonKeywordsMerged ==
    (claim_returned /\ source.format = "json")
        => claim_first_seen(result.value[1].keywords, claim_json_keywords(source))

\* keywords ["A","B"] with keywordsTheme [{value: "A"}] gave ["A","B"]
C16_Witness ==
    /\ claim_returned
    /\ source.format = "json"
    /\ source.keywords = <<"A", "B">>
    /\ source.keywordsTheme = <<KwDict("A", None)>>
    /\ result.value[1].keywords = <<"A", "B">>

\* The keyword texts of a document in the order in which the document
\* lists them
claim_source_keywords(src) ==
    CASE src.format = "json" -> claim_json_keywords(src)
      [] src.format = "xml" ->
            SelectSeq([i \in DOMAIN src.keywords |->
                          IF src.keywords[i].text = None THEN ""
                          ELSE strip(src.keywords[i].text)], truthy)
      [] src.format = "jsonld" -> SelectSeq(jsonld_extract_keywords(src), truthy)
      [] src.format = "rdf" ->
            LET mine == SelectSeq(src.triples, LAMBDA t :
                            t.key \in {"dcat:keyword", "dc:subject", "dct:subject",
                                       "schema:keywords"})
            IN  [i \in DOMAIN mine |-> mine[i].value]

\* C17: the keywords of every Metadata returned by any of the four
\* extractors contain no duplicate and are in the order of first appearance
\* in the source document.
C17_KeywordsUniqueInSourceOrder ==
    claim_returned
        => claim_first_seen(result.value[1].keywords, claim_source_keywords(source))

C23_ExtractTwiceGivesEqualMetadata ==
    Len(extracted) = 2 => extracted[1] = extracted[2]

\* C24: for a JSON and an XML file that represent the same dataset,
\* JSONExtractor and XMLExtractor return Metadata with the same title, the
\* same abstract, the same set of keywords and, when both carry a bounding
\* box, the same coordinates.
C24_JsonAndXmlAgree ==
    (/\ json_metadata.done /\ json_metadata.raised = None
     /\ xml_metadata.done /\ xml_metadata.raised = None)
        => LET j == json_metadata.value[1]
               x == xml_metadata.value[1]
           IN  /\ j.title = x.title
               /\ j.abstract = x.abstract
               /\ {j.keywords[i] : i \in DOMAIN j.keywords}
                     = {x.keywords[i] : i \in DOMAIN x.keywords}
               /\ (j.bounding_box # Nothing /\ x.bounding_box # Nothing)
                     => j.bounding_box = x.bounding_box

(***************************************************************************)
(* Claims about ExtractorFactory (SpecFactory)                             *)
(***************************************************************************)
\* The class registered by default for the extension of a path
claim_default_class(ext) ==
    CASE ext = ".json" -> "JSONExtractor"
      [] ext = ".xml" -> "XMLExtractor"
      [] ext = ".jsonld" -> "JSONLDExtractor"
      [] ext \in {".ttl", ".turtle"} -> "RDFExtractor"
      [] OTHER -> None

\* C18: create_extractor(path) returns an extractor of the class registered
\* for the path's extension, matched case-insensitively (.json, .xml,
\* .jsonld, .ttl / .turtle by default); when the extension has no mapping
\* it fails with UnsupportedFormatError carrying the path as given and the
\* full list of known formats.
C18_CreateExtractorByExtension ==
    last_call.op = "create_extractor" =>
        LET path == last_call.args.file_path
            ext == splitext(lower(path))
            token == dict_get(last_call.extension_map, ext)
            got == last_call.result
        IN  /\ token # None =>
                  /\ got.raised = None
                  /\ got.value = Some(Instance(dict_get(last_call.extractors, token),
                                               factory_strict_mode))
            /\ token = None =>
                  /\ got.raised = "UnsupportedFormatError"
                  /\ got.value = Nothing
                  /\ got.file_path = path
                  /\ got.supported_formats = dict_keys(last_call.extension_map)
            /\ (/\ last_call.extractors = DefaultExtractors
                /\ last_call.extension_map = DefaultExtensionMap)
                  => IF claim_default_class(ext) = None
                     THEN got.raised = "UnsupportedFormatError"
                     ELSE /\ got.value # Nothing
                          /\ got.value[1].class = claim_default_class(ext)

\* An upper-case .JSON path got a JSONExtractor
C18_Witness ==
    /\ last_call.op = "create_extractor"
    /\ last_call.args.file_path = "A.JSON"
    /\ last_call.result.value # Nothing
    /\ last_call.result.value[1].class = "JSONExtractor"

\* C19: get_extractor_for_file probes the registered extractors' can_extract
\* in registration order and returns the first that accepts the path, or
\* None when none does, also after extractors were added or re-registered.
C19_FirstAcceptingInRegistrationOrder ==
    last_call.op = "get_extractor_for_file" =>
        LET path == last_call.args.file_path
            class(i) == dict_get(last_call.extractors, registered[i])
            accepting == {i \in DOMAIN registered : can_extract(class(i), path)}
            got == last_call.result
        IN  /\ got.raised = None
            /\ accepting = {} => got.value = Nothing
            /\ accepting # {} =>
                  LET i == CHOOSE i \in accepting : \A j \in accepting : i <= j
                  IN  got.value = Some(Instance(class(i), factory_strict_mode))

\* Two registered extractors accept a.json; the one registered first came back
C19_Witness ==
    /\ last_call.op = "get_extractor_for_file"
    /\ last_call.args.file_path = "a.json"
    /\ dict_get(extractors, "json") = "JSONExtractor"
    /\ dict_get(extractors, "csv") = "GreedyExtractor"
    /\ last_call.result.value = Some(Instance("JSONExtractor", factory_strict_mode))

\* The extension-map key that a given extension stands for
claim_extension(e) == IF e = "CSV" THEN ".csv" ELSE lower(e)

\* C20: register_extractor(format, class, extensions) changes only the
\* registry entry of that format token and the extension-map entries of
\* the given extensions; afterwards create_extractor on a path with one of
\* those extensions returns an instance of the new class; create_extractor,
\* create_extractor_by_format and get_extractor_for_file change neither
\* the registry nor the extension map.
C20_RegisterChangesOnlyItsEntries ==
    LET args == last_call.args
        token == lower(args.format_type)
        given == {claim_extension(args.extensions[i]) : i \in DOMAIN args.extensions}
        tokens == {extractors[i].key : i \in DOMAIN extractors}
                  \cup {last_call.extractors[i].key : i \in DOMAIN last_call.extractors}
        exts == {extension_map[i].key : i \in DOMAIN extension_map}
                \cup {last_call.extension_map[i].key : i \in DOMAIN last_call.extension_map}
    IN  /\ last_call.op = "register_extractor" =>
              /\ dict_get(extractors, token) = args.extractor_class
              /\ \A k \in tokens \ {token} :
                    dict_get(extractors, k) = dict_get(last_call.extractors, k)
              /\ \A e \in given : dict_get(extension_map, e) = token
              /\ \A e \in exts \ given :
                    dict_get(extension_map, e) = dict_get(last_call.extension_map, e)
              /\ \A p \in Paths :
                    splitext(lower(p)) \in given =>
                        create_extractor(extractors, extension_map, factory_strict_mode, p)
                            = FactoryReturned(Instance(args.extractor_class,
                                                       factory_strict_mode))
        /\ last_call.op \in {"create_extractor", "create_extractor_by_format",
                             "get_extractor_for_file"} =>
              /\ extractors = last_call.extractors
              /\ extension_map = last_call.extension_map

\* The json token was re-registered with two new extensions
C20_Witness ==
    /\ last_call.op = "register_extractor"
    /\ last_call.args.format_type = "json"
    /\ last_call.args.extractor_class = "GreedyExtractor"
    /\ last_call.args.extensions = <<"CSV", ".tsv">>
    /\ dict_get(last_call.extractors, "json") = "JSONExtractor"
    /\ dict_get(extension_map, ".tsv") = "json"

(***************************************************************************)
(* Claims about JSONExtractor.extract_resources (SpecResources)            *)
(***************************************************************************)
\* The kind of Resource the claim gives an entry with a URL, "" for dropped
claim_resource_kind(url, function) ==
    CASE url \in {R_ZIP, R_STOREZIP} \/ function = "download" -> "RemoteFile"
      [] OTHER ->
    CASE url \in {R_STORE, R_DIR, R_APIDIR} -> "WebFolder"
      [] OTHER ->
    CASE url \in {R_API, R_QUERY, R_JSONFILE} -> "APIEndpoint"
      [] OTHER ->
    \* the text after the last "/" has a dot
    CASE url \in {R_CSV, R_HOST} -> "RemoteFile"
      [] OTHER -> ""

claim_class_of_kind(kind) ==
    CASE kind = "RemoteFile" -> "RemoteFileResource"
      [] kind = "WebFolder" -> "WebFolderResource"
      [] kind = "APIEndpoint" -> "APIDataResource"

\* The Resources of a list of well-formed entries, in input order
RECURSIVE claim_resources(_)
claim_resources(entries) ==
    IF entries = <<>> THEN <<>>
    ELSE LET e == Head(entries)
             kind == claim_resource_kind(e.url, e.function)
         IN  (IF e.url \in {None, ""} \/ kind = "" THEN <<>>
              ELSE <<Resource(claim_class_of_kind(kind), e.url)>>)
             \o claim_resources(Tail(entries))

\* The entries before the first malformed one
RECURSIVE claim_before_error(_)
claim_before_error(entries) ==
    IF entries = <<>> \/ ~Head(entries).is_dict THEN <<>>
    ELSE <<Head(entries)>> \o claim_before_error(Tail(entries))

\* C21: extract_resources never raises; on an unreadable file, invalid JSON
\* or a malformed resource entry it returns the resources collected before
\* the error, possibly the empty list.
C21_ExtractResourcesNeverRaises ==
    returned_resources.done =>
        /\ returned_resources.raised = None
        /\ returned_resources.value # Nothing
        /\ resource_file.content # "object" => returned_resources.value[1] = <<>>
        /\ (resource_file.content = "object"
             /\ \E i \in DOMAIN resource_file.onlineResources.items :
                    ~resource_file.onlineResources.items[i].is_dict)
               => returned_resources.value[1] =
                    claim_resources(claim_before_error(resource_file.onlineResources.items))

\* A .zip entry followed by a bare string gave the one RemoteFileResource
C21_Witness ==
    /\ returned_resources.done
    /\ resource_file.content = "object"
    /\ resource_file.onlineResources.items = <<ResDict(R_ZIP, None), ResString>>
    /\ returned_resources.value = Some(<<Resource("RemoteFileResource", R_ZIP)>>)

\* C26: extract_resources maps every online resource with a URL to at most
\* one Resource, in input order, by the first rule that applies: .zip or
\* function "download" -> RemoteFile; datastore path or trailing slash ->
\* WebFolder; "/api/" or "json" -> APIEndpoint; an extension in the last
\* segment -> RemoteFile; else dropped.  downloadUrl becomes a RemoteFile
\* only when onlineResources is absent or empty.
C26_ResourceMapping ==
    (/\ returned_resources.done
     /\ resource_file.content = "object"
     /\ resource_file.onlineResources.given # "null"
     /\ \A i \in DOMAIN resource_file.onlineResources.items :
            resource_file.onlineResources.items[i].is_dict)
        => LET items == resource_file.onlineResources.items
               url == resource_file.downloadUrl
           IN  returned_resources.value[1] =
                   IF items # <<>> THEN claim_resources(items)
                   ELSE IF url \in {None, ""} THEN <<>>
                   ELSE <<Resource("RemoteFileResource", url)>>

\* A page with function "download" and a folder under /api/ gave a
\* RemoteFileResource and a WebFolderResource, in that order
C26_Witness ==
    /\ returned_resources.done
    /\ resource_file.content = "object"
    /\ resource_file.downloadUrl = R_PAGE
    /\ resource_file.onlineResources.items =
           <<ResDict(R_PAGE, "download"), ResDict(R_APIDIR, None)>>
    /\ returned_resources.value =
           Some(<<Resource("RemoteFileResource", R_PAGE),
                  Resource("WebFolderResource", R_APIDIR)>>)

(***************************************************************************)
(* Claims about Metadata.add_keywords (SpecKeywords)                       *)
(***************************************************************************)
\* C30: after any sequence of add_keywords calls on a Metadata whose
\* keywords start without duplicates, keywords holds no duplicate and no
\* blank entry, and the keywords present before each call keep their
\* positions.
C30_AddKeywordsKeepsKeywordsUnique ==
    /\ \A i, j \in DOMAIN metadata_keywords :
          i # j => metadata_keywords[i] # metadata_keywords[j]
    /\ \A i \in DOMAIN metadata_keywords : ~is_blank(metadata_keywords[i])
    /\ Len(keywords_before) <= Len(metadata_keywords)
    /\ \A i \in DOMAIN keywords_before : metadata_keywords[i] = keywords_before[i]

(***************************************************************************)
(* Claims about BatchETLRunner (SpecBatch, SpecBatchFair)                  *)
(***************************************************************************)
claim_recorded(u) ==
    u \in progress.completed_uuids \/ u \in progress.failed_uuids

\* C25: in a batch run a failure for one identifier never aborts the run:
\* the failure is recorded for that identifier, every run that was started
\* returns, and when it returns every identifier that was not completed
\* before has been processed and is recorded as completed or as failed.
C25_BatchContinuesPastFailures ==
    /\ [](\A i \in DOMAIN futures :
            (futures[i].phase = "recorded" /\ ~futures[i].success)
                => futures[i].uuid \in progress.failed_uuids)
    /\ []((run_pc = "idle" /\ runs > 0) =>
            /\ \A i \in DOMAIN futures : futures[i].phase = "recorded"
            /\ \A i \in DOMAIN all_uuids : claim_recorded(all_uuids[i]))
    /\ ((run_pc = "running") ~> (run_pc = "idle"))

\* A run returned after the first identifier had failed and the second had
\* succeeded
C25_Witness ==
    /\ run_pc = "idle" /\ runs = 1
    /\ all_uuids = <<"u1", "u_2">>
    /\ futures = <<Future("u1", "recorded", FALSE), Future("u_2", "recorded", TRUE)>>
    /\ progress.failed_uuids = {"u1"}
    /\ progress.completed_uuids = {"u_2"}

\* C27: after any sequence of runs that share the checkpoint file with
\* resume enabled, the saved counters satisfy processed = successful +
\* failed and processed <= total, total being the number of identifiers of
\* the input file.
C27_CheckpointCounters ==
    (resume /\ progress_file # Nothing) =>
        /\ progress_file[1].processed
              = progress_file[1].successful + progress_file[1].failed
        /\ progress_file[1].total = Len(all_uuids)
        /\ progress_file[1].processed <= progress_file[1].total

\* C28: after any sequence of runs that share the checkpoint file, no
\* identifier is both in completed_uuids and in failed_uuids.
C28_CompletedAndFailedDisjoint ==
    progress_file # Nothing =>
        progress_file[1].completed_uuids \cap progress_file[1].failed_uuids = {}

\* C29: no two pipelines that are in flight at the same time download to
\* the same temp file.
C29_TempFilesDistinct ==
    \A i, j \in DOMAIN futures :
        (i # j /\ in_flight(futures[i]) /\ in_flight(futures[j]))
            => create_temp_file(futures[i].uuid, "json")
                 # create_temp_file(futures[j].uuid, "json")

====
